---- MODULE Spec2Model ----
(***************************************************************************)
(* State-machine model of quantum-fireworks (fireworks.js, p5.js sketch).  *)
(*                                                                         *)
(* Units.  Times are milliseconds, as millis() returns them; the code's    *)
(* seconds (millis()/1000.0) are compared after multiplying both sides by   *)
(* 1000.  fadeDuration is kept in tenths of a millisecond, because         *)
(* 0.5/fadeRate is 62.5 ms for a crackle.  Velocities, accelerations and   *)
(* positions are fixed-point with two decimals (1 = 0.01 px), alpha is     *)
(* fixed-point with two decimals (25500 = 255), air drag is in thousandths,*)
(* fadeRate in tenths, launchFrequency in tenths per second.  Colour, size *)
(* and density only feed drawing calls and are left out.                   *)
(*                                                                         *)
(* random() is a fresh nondeterministic draw per handler run: a handler    *)
(* draws a small integer r, and the k-th call of one call site takes the   *)
(* (r + k)-th of that site's representative values (Draw).                 *)
(***************************************************************************)
EXTENDS Integers, Sequences, FiniteSets, TLC

VARIABLES
  now,          \* millis() at the current frame
  deltaTime,    \* p5 deltaTime: milliseconds between the last two frames
  width,        \* canvas width  (px)
  height,       \* canvas height (px)
  config,       \* system.config, the shared configuration record
  lastLaunch,   \* system.lastLaunch
  particles,    \* global particles list
  fireworks,    \* global fireworks list
  launched,     \* number of Firework objects constructed so far (object identity)
  explodeCalls, \* history: how often explode() ran, per Firework
  retired,      \* history: Fireworks spliced out of the fireworks list
  trace,        \* history: what the last handler did
  threw,        \* history: the last handler raised an uncaught exception
  system,       \* the global system is set (a FireworkSystem was constructed)
  looping,      \* p5 calls draw() every frame (FALSE after noLoop())
  gui           \* the dat.GUI panel was built (initGUI ran to its end)

vars == <<now, deltaTime, width, height, config, lastLaunch, particles,
          fireworks, launched, explodeCalls, retired, trace, threw, system,
          looping, gui>>

-----------------------------------------------------------------------------
(* Bounds of the model *)

\* largest value of millis() the model explores
MaxTime == 2500
\* number of Firework objects the model constructs at most
MaxLaunches == 1
\* config.maxTotalParticles of the model (the panel offers 5000..50000)
MaxCap == 4
\* config.particleCount of the model (the panel offers 100..5000)
MaxCount == 4

(* Program constants *)
MAX_PARTICLES_PER_FIREWORK == 5000
MAX_TOTAL_PARTICLES == 30000
TRAIL_LENGTH == 15

FIREWORK_TYPES ==
  <<"PEONY", "CHRYSANTHEMUM", "PALM", "WILLOW", "STROBE", "CRACKLING",
    "MULTI_BREAK", "RANDOM">>

Null == "null"

-----------------------------------------------------------------------------
(* Arithmetic helpers *)

Min(a, b) == IF a <= b THEN a ELSE b
Max(a, b) == IF a >= b THEN a ELSE b

\* division rounding toward zero, as a truncated fixed-point product
DivT(a, b) == IF a >= 0 THEN a \div b ELSE -((-a) \div b)

RECURSIVE SqrtIter(_, _)
SqrtIter(n, x) ==
  LET y == (x + n \div x) \div 2
  IN IF y >= x THEN x ELSE SqrtIter(n, y)

\* floor of the square root
ISqrt(n) == IF n <= 0 THEN 0 ELSE SqrtIter(n, n)

\* a call site's k-th draw among its representative values
Draw(S, k) == S[(k % Len(S)) + 1]

\* Array.prototype.splice(i, 1) with a 1-based index
Splice(s, i) == SubSeq(s, 1, i - 1) \o SubSeq(s, i + 1, Len(s))

-----------------------------------------------------------------------------
(* p5.Vector *)

Vec(x, y) == [x |-> x, y |-> y]
VAdd(a, b) == Vec(a.x + b.x, a.y + b.y)
\* mult by num/den
VScale(a, num, den) == Vec(DivT(a.x * num, den), DivT(a.y * num, den))
VMagSq(a) == a.x * a.x + a.y * a.y
VMag(a) == ISqrt(VMagSq(a))

\* p5.Vector.fromAngle at 0, 90, 180 and 270 degrees (canvas y grows downward)
Dirs == <<Vec(1, 0), Vec(0, 1), Vec(-1, 0), Vec(0, -1)>>

-----------------------------------------------------------------------------
(* Particle *)

NoOptions == [lifespan |-> 0, strobeRate |-> 0, crackleRate |-> 0, fadeRate |-> 0]

\* Particle.constructor: alpha is the colour's alpha level; a missing option is
\* falsy (0) and takes its default; life is the draw of random(1.5, 2.5)
NewParticle(pos, vel, alpha, role, options, t, life) ==
  LET fr == IF options.fadeRate # 0 THEN options.fadeRate ELSE 10
  IN [id |-> 0,
      role |-> role,
      pos |-> pos,
      vel |-> vel,
      acc |-> Vec(0, 0),
      alpha |-> alpha,
      particleStyle |-> "CLASSIC",
      configRef |-> Null,
      lifespan |-> IF options.lifespan # 0 THEN options.lifespan ELSE life,
      strobeRate |-> options.strobeRate,
      crackleRate |-> options.crackleRate,
      fadeRate |-> fr,
      delay |-> 0,
      subType |-> Null,
      palette |-> 0,
      timeCreated |-> t,
      lastStrobe |-> t,
      lastCrackle |-> t,
      strobeOn |-> TRUE,
      isFading |-> FALSE,
      fadeStartAlpha |-> alpha,
      fadeStartTime |-> 0,
      fadeDuration |-> 50000 \div Max(1, fr),
      trail |-> << >>,
      maxTrailLength |-> TRAIL_LENGTH,
      \* the style test in the constructor runs right after particleStyle is
      \* set to 'CLASSIC', so enableFluidBehavior is not reached from it
      fluid |-> FALSE,
      viscosity |-> 98,
      \* what the entry lacks: "none", or "pos", "vel", "acc" once the property
      \* was taken from the object, or "null" for an entry that is no object
      missing |-> "none"]

\* !p || !p.pos || !p.vel || !p.acc
Malformed(p) == p.missing # "none"

\* Particle.applyForce
applyForce(p, f) == [p EXCEPT !.acc = VAdd(p.acc, f)]

\* Particle.applyDrag: a force of magnitude speed^2 * coefficient against vel
applyDrag(p, dragCoefficient) ==
  IF dragCoefficient > 0 /\ VMagSq(p.vel) > 1
  THEN LET speed == VMag(p.vel)
           dragForce ==
             Vec(-DivT(DivT(speed * p.vel.x, 100) * dragCoefficient, 1000),
                 -DivT(DivT(speed * p.vel.y, 100) * dragCoefficient, 1000))
       IN applyForce(p, dragForce)
  ELSE p

\* variant of setFading: the test of isFading is left out
setFadingAnew(p, duration, t) ==
  [p EXCEPT !.isFading = TRUE,
            !.fadeStartTime = t,
            !.fadeStartAlpha = p.alpha,
            !.fadeDuration = IF duration > 0 THEN duration
                             ELSE Max(100, 50000 \div Max(1, p.fadeRate))]

\* Particle.setFading(duration): duration in tenths of a millisecond, -1 = default
setFading(p, duration, t) ==
  IF ~p.isFading
  THEN [p EXCEPT !.isFading = TRUE,
                 !.fadeStartTime = t,
                 !.fadeStartAlpha = p.alpha,
                 !.fadeDuration = IF duration > 0 THEN duration
                                  ELSE Max(100, 50000 \div Max(1, p.fadeRate))]
  ELSE p

\* variant of Lerp: the step is taken away from stop
LerpAway(start, stop, num, den) == start - DivT((stop - start) * num, den)

\* lerp(start, stop, num/den) = amt * (stop - start) + start
Lerp(start, stop, num, den) == start + DivT((stop - start) * num, den)

\* constrain(num/den, 0, 1) as a numerator over den
Constrain01(num, den) == IF num <= 0 THEN 0 ELSE IF num >= den THEN den ELSE num

\* variant of isDone: a particle is done only below zero
isDoneBelowZero(p) == p.alpha < 0

\* Particle.isDone
isDone(p) == p.alpha <= 0

\* the time step Particle.update uses: deltaTime/1000 when 0 < deltaTime < 250,
\* else 1/60, as a fraction num/den of a second
StepNum(dT) == IF dT > 0 /\ dT < 250 THEN dT ELSE 1
StepDen(dT) == IF dT > 0 /\ dT < 250 THEN 1000 ELSE 60

\* Particle.update, physics: vel += acc; pos += vel * dt; acc = 0
Physics(p, dT) ==
  LET v == VAdd(p.vel, p.acc)
  IN [p EXCEPT !.vel = v,
               !.pos = VAdd(p.pos, VScale(v, StepNum(dT), StepDen(dT))),
               !.acc = Vec(0, 0)]

\* variant of ShiftTo: the trail is cut at its newest end
ShiftToNewest(trail, maxLen) ==
  IF Len(trail) > maxLen THEN SubSeq(trail, 1, maxLen) ELSE trail

RECURSIVE ShiftTo(_, _)
\* while (trail.length > maxTrailLength) trail.shift()
ShiftTo(trail, maxLen) ==
  IF Len(trail) > maxLen THEN ShiftTo(Tail(trail), maxLen) ELSE trail

\* Particle.update, trail
TrailStep(p) ==
  IF VMagSq(p.vel) > 100
  THEN [p EXCEPT !.trail = ShiftTo(Append(p.trail, p.pos), p.maxTrailLength)]
  ELSE IF Len(p.trail) > 0 THEN [p EXCEPT !.trail = Tail(p.trail)]
  ELSE p

\* variant of FadeStep: the progress is not constrained to 0..1 and alpha is
\* not held at 0
FadeStepUnclamped(p, t) ==
  IF p.isFading
  THEN [p EXCEPT !.alpha = Lerp(p.fadeStartAlpha, 0, (t - p.fadeStartTime) * 10,
                                p.fadeDuration)]
  ELSE IF p.role # "MINI_SHELL" /\ t - p.timeCreated >= p.lifespan
  THEN setFading(p, -1, t)
  ELSE p

\* variant of FadeStep: a fade that has run its course clears isFading
FadeStepRestart(p, t) ==
  IF p.isFading
  THEN [p EXCEPT !.alpha = Max(0, Lerp(p.fadeStartAlpha, 0,
                                       Constrain01((t - p.fadeStartTime) * 10,
                                                   p.fadeDuration),
                                       p.fadeDuration)),
                 !.isFading = (t - p.fadeStartTime) * 10 < p.fadeDuration]
  ELSE IF p.role # "MINI_SHELL" /\ t - p.timeCreated >= p.lifespan
  THEN setFading(p, -1, t)
  ELSE p

\* Particle.update, lifespan and fading
FadeStep(p, t) ==
  IF p.isFading
  THEN LET den == p.fadeDuration
           num == Constrain01((t - p.fadeStartTime) * 10, den)
       IN [p EXCEPT !.alpha = Max(0, Lerp(p.fadeStartAlpha, 0, num, den))]
  ELSE IF p.role # "MINI_SHELL" /\ t - p.timeCreated >= p.lifespan
  THEN setFading(p, -1, t)
  ELSE p

\* Particle.update, STROBE: toggle once 1/strobeRate seconds have passed
StrobeStep(p, t) ==
  IF p.role = "STROBE" /\ p.strobeRate > 0 /\ ~p.isFading
     /\ (t - p.lastStrobe) * p.strobeRate >= 1000
  THEN LET strobeInterval == 1000 \div p.strobeRate
           last == p.lastStrobe + strobeInterval
       IN [p EXCEPT !.strobeOn = ~p.strobeOn,
                    !.lastStrobe = IF last < t - strobeInterval * 2 THEN t ELSE last]
  ELSE p

-----------------------------------------------------------------------------
(* Particle creation shared by Firework.explode and Particle.explodeSecondary *)

\* what one call of createParticle is given
Request(pos, vel, alpha, role, options) ==
  [pos |-> pos, vel |-> vel, alpha |-> alpha, role |-> role, options |-> options]

\* variant of createParticle: the test on particles.length is left out
createParticleUncapped(ps, cfg, q, t, life) ==
  Append(ps, [NewParticle(q.pos, q.vel, q.alpha, q.role, q.options, t, life)
                EXCEPT !.particleStyle = cfg.particleType,
                       !.configRef = "config"])

\* Firework.createParticle: a no-op once particles.length has reached the cap
createParticle(ps, cfg, q, t, life) ==
  IF Len(ps) < cfg.maxTotalParticles
  THEN Append(ps, [NewParticle(q.pos, q.vel, q.alpha, q.role, q.options, t, life)
                     EXCEPT !.particleStyle = cfg.particleType,
                            !.configRef = "config"])
  ELSE ps

RECURSIVE CreateAll(_, _, _, _, _, _)
\* the creation loop of one burst over its requests qs, from the k-th on
CreateAll(ps, cfg, qs, k, t, r) ==
  IF k > Len(qs) THEN ps
  ELSE CreateAll(createParticle(ps, cfg, qs[k], t, Draw(<<1500, 2500>>, r + k)),
                 cfg, qs, k + 1, t, r)

\* number of iterations of for (i = 0; i < n * tenths / 10; i++)
LoopCount(n, tenths) == (n * tenths + 9) \div 10

\* p5.Vector.fromAngle(angle).mult(forceMag).add(inheritedVel)
BurstVel(dir, forceMag, inheritedVel) == VAdd(VScale(dir, forceMag, 1), inheritedVel)

\* variant of ForceDraw: the range is a tenth wider at either end
ForceDrawWide(baseForce, lo, hi, k) ==
  Draw(<<(baseForce * (lo - 1)) \div 10, (baseForce * (hi + 1)) \div 10>>, k)

\* random(baseForce * lo, baseForce * hi), lo and hi in tenths: its two ends
ForceDraw(baseForce, lo, hi, k) ==
  Draw(<<(baseForce * lo) \div 10, (baseForce * hi) \div 10>>, k)

-----------------------------------------------------------------------------
(* Particle.spawnCrackle and Particle.explodeSecondary *)

\* Particle.spawnCrackle: 1 to 3 CRACKLE particles, none once the cap is reached
CrackleRequests(p, r) ==
  LET numCrackles == Draw(<<1, 2, 3>>, r)
  IN [i \in 1..numCrackles |->
        LET offsetVel == VScale(Draw(Dirs, r + i), Draw(<<300, 600>>, r + i), 1)
            crackleVel == VAdd(VScale(p.vel, 2, 10), offsetVel)
        IN Request(p.pos, crackleVel, 25500, "CRACKLE",
                   [NoOptions EXCEPT !.lifespan = Draw(<<50, 150>>, r + i),
                                     !.fadeRate = 80])]

RECURSIVE PushCrackles(_, _, _, _, _, _)
PushCrackles(ps, cfg, p, qs, k, t) ==
  IF k > Len(qs) \/ Len(ps) >= cfg.maxTotalParticles THEN ps
  ELSE PushCrackles(
         Append(ps, [NewParticle(qs[k].pos, qs[k].vel, qs[k].alpha, qs[k].role,
                                 qs[k].options, t, 1500)
                       EXCEPT !.particleStyle = p.particleStyle,
                              !.configRef = p.configRef]),
         cfg, p, qs, k + 1, t)

spawnCrackle(ps, cfg, p, t, r) ==
  IF p.configRef = Null THEN ps
  ELSE PushCrackles(ps, cfg, p, CrackleRequests(p, r), 1, t)

\* variant of SecondaryCount: the factor 0.4 is left out
SecondaryCountFull(cfg) ==
  Min(IF cfg.particleCount # 0 THEN cfg.particleCount ELSE 1000,
      MAX_PARTICLES_PER_FIREWORK)

\* floor(min((configRef.particleCount || 1000) * 0.4, MAX_PARTICLES_PER_FIREWORK))
SecondaryCount(cfg) ==
  Min(((IF cfg.particleCount # 0 THEN cfg.particleCount ELSE 1000) * 4) \div 10,
      MAX_PARTICLES_PER_FIREWORK)

\* Particle.explodeSecondary: the requests of the switch on subType
SecondaryRequests(p, cfg, r) ==
  LET numParticles == SecondaryCount(cfg)
      baseForce == ((IF cfg.explosionSize # 0 THEN cfg.explosionSize ELSE 400) * 100) \div 18
      inheritedVel == VScale(p.vel, 3, 10)
      explosionType == IF p.subType # Null THEN p.subType ELSE "PEONY"
  IN CASE explosionType = "CRACKLING" ->
            [i \in 1..LoopCount(numParticles, 8) |->
               Request(p.pos,
                       BurstVel(Draw(Dirs, r + i), ForceDraw(baseForce, 6, 10, r + i),
                                inheritedVel),
                       25500, "CRACKLE_SOURCE",
                       [NoOptions EXCEPT !.lifespan = Draw(<<600, 1200>>, r + i),
                                         !.crackleRate = Draw(<<4, 9>>, r + i)])]
       [] explosionType = "STROBE" ->
            [i \in 1..LoopCount(numParticles, 7) |->
               Request(p.pos,
                       BurstVel(Draw(Dirs, r + i), ForceDraw(baseForce, 7, 11, r + i),
                                inheritedVel),
                       25500, "STROBE",
                       [NoOptions EXCEPT !.lifespan = Draw(<<1000, 2000>>, r + i),
                                         !.strobeRate = Draw(<<8, 10>>, r + i)])]
       [] OTHER ->
            [i \in 1..numParticles |->
               Request(p.pos,
                       BurstVel(Draw(Dirs, r + i), ForceDraw(baseForce, 8, 12, r + i),
                                inheritedVel),
                       25500, "EXPLOSION",
                       [NoOptions EXCEPT !.lifespan = Draw(<<800, 1500>>, r + i)])]

\* each loop stops at the cap, and createParticle refuses at the cap
explodeSecondary(ps, cfg, p, t, r) ==
  IF p.configRef = Null THEN ps
  ELSE CreateAll(ps, cfg, SecondaryRequests(p, cfg, r), 1, t, r)

-----------------------------------------------------------------------------
(* Particle.update *)

\* Particle.applyFluidBehavior: viscosity, then a noise-directed force of 0.08
applyFluidBehavior(p, r) ==
  applyForce([p EXCEPT !.vel = VScale(p.vel, p.viscosity, 100)],
             VScale(Draw(Dirs, r), 8, 1))

\* Particle.update, fluid particles: applyFluidBehavior if the style is 'FLUID'
\* and the fluid fields are set
FluidStep(p, r) ==
  IF p.particleStyle = "FLUID" /\ p.fluid THEN applyFluidBehavior(p, r) ELSE p

\* Particle.update, CRACKLE_SOURCE: the spawn is due
CrackleDue(p, t, r) ==
  /\ p.role = "CRACKLE_SOURCE"
  /\ p.crackleRate > 0
  /\ ~p.isFading
  /\ (t - p.lastCrackle) * p.crackleRate >= Draw(<<700, 1300>>, r)

\* variant of CrackleRoom: no buffer of 5 is left below the cap
CrackleRoomToCap(ps, cfg, p) ==
  LET maxP == IF p.configRef # Null /\ cfg.maxTotalParticles # 0
              THEN cfg.maxTotalParticles ELSE MAX_TOTAL_PARTICLES
  IN Len(ps) < maxP

\* Particle.update, CRACKLE_SOURCE: particles.length < maxP - 5
CrackleRoom(ps, cfg, p) ==
  LET maxP == IF p.configRef # Null /\ cfg.maxTotalParticles # 0
              THEN cfg.maxTotalParticles ELSE MAX_TOTAL_PARTICLES
  IN Len(ps) < maxP - 5

\* variant of SecondaryDue: the age is not compared with the delay
SecondaryDueAtOnce(p, t) == p.role = "MINI_SHELL" /\ p.delay > 0

\* the MINI_SHELL branch fires: the particle is a mini-shell whose delay has passed
SecondaryDue(p, t) ==
  p.role = "MINI_SHELL" /\ p.delay > 0 /\ t - p.timeCreated >= p.delay

\* Particle.update, MINI_SHELL whose delay has passed: after is the list that
\* explodeSecondary left; the mini-shell's alpha and delay are set to 0
SecondaryDone(ps, i, after, t) ==
  [ps |-> [after EXCEPT ![i] = [ps[i] EXCEPT !.alpha = 0, !.delay = 0]],
   bursts |-> <<[kind |-> "secondary", fw |-> 0, type |-> ps[i].subType,
                 age |-> t - ps[i].timeCreated, delay |-> ps[i].delay,
                 lenBefore |-> Len(ps), shellVel |-> ps[i].vel,
                 pos |-> ps[i].pos,
                 created |-> SubSeq(after, Len(ps) + 1, Len(after))]>>]

\* Particle.update, CRACKLE_SOURCE and FLUID: p1 is the particle after physics,
\* trail, fading and strobe, spawn tells whether spawnCrackle is called
Spawned(ps, i, cfg, p1, spawn, t, r) ==
  [ps |-> [(IF spawn THEN spawnCrackle(ps, cfg, p1, t, r) ELSE ps)
             EXCEPT ![i] = FluidStep(IF spawn THEN [p1 EXCEPT !.lastCrackle = t]
                                     ELSE p1, r)],
   bursts |-> << >>]

\* Particle.update of a particle that is no mini-shell, from the crackle test on
Stepped(ps, i, cfg, p1, t, r) ==
  Spawned(ps, i, cfg, p1, CrackleDue(p1, t, r) /\ CrackleRoom(ps, cfg, p1), t, r)

\* Particle.update of particles[i]: the new list (the particle in place, whatever
\* it spawned appended) and the secondary burst it set off, if any
ParticleUpdate(ps, i, cfg, t, dT, r) ==
  IF Malformed(ps[i])
  THEN [ps |-> [ps EXCEPT ![i] = [ps[i] EXCEPT !.alpha = 0]], bursts |-> << >>]
  ELSE IF SecondaryDue(ps[i], t)
  THEN SecondaryDone(ps, i, explodeSecondary(ps, cfg, ps[i], t, r), t)
  ELSE IF ps[i].role = "MINI_SHELL" /\ ps[i].delay <= 0
  THEN [ps |-> [ps EXCEPT ![i] = [ps[i] EXCEPT !.alpha = 0]], bursts |-> << >>]
  ELSE Stepped(ps, i, cfg, StrobeStep(FadeStep(TrailStep(Physics(ps[i], dT)), t), t),
               t, r)

-----------------------------------------------------------------------------
(* Firework *)

\* Firework.constructor: the Firework and its shell; the shell is one object,
\* held by the Firework and by the particles list (field id tells which)
NewFirework(id, pos, vel, type, t, h, r) ==
  LET shell == [NewParticle(pos, vel, 20000, "SHELL", NoOptions, t,
                            Draw(<<1500, 2500>>, r \div 2))
                  EXCEPT !.id = id, !.configRef = "config"]
  IN [id |-> id,
      shell |-> shell,
      type |-> type,
      lifecycle |-> "ASCENT",
      explosionAltitude |-> Draw(<<h * 10, h * 50>>, r \div 2),
      palette |-> Draw(<<1, 4>>, r),
      hasExploded |-> FALSE]

\* unit vectors (in thousandths) of branch i of m, at angle (i / m) * TWO_PI
BranchDir(i, m) ==
  CASE m = 4 -> <<Vec(1000, 0), Vec(0, 1000), Vec(-1000, 0), Vec(0, -1000)>>[i + 1]
    [] m = 5 -> <<Vec(1000, 0), Vec(309, 951), Vec(-809, 588), Vec(-809, -588),
                  Vec(309, -951)>>[i + 1]
    [] OTHER -> <<Vec(1000, 0), Vec(500, 866), Vec(-500, 866), Vec(-1000, 0),
                  Vec(-500, -866), Vec(500, -866)>>[i + 1]

\* the switch of Firework.explode, but for MULTI_BREAK: the createParticle calls
ExplodeRequests(fw, cfg, r) ==
  LET numParticles ==
        Min(IF cfg.particleCount # 0 THEN cfg.particleCount ELSE 1000,
            MAX_PARTICLES_PER_FIREWORK)
      baseForce == (IF cfg.explosionSize # 0 THEN cfg.explosionSize ELSE 400) * 10
      explosionPos == fw.shell.pos
      inheritedVel == VScale(fw.shell.vel, 1, 10)
  IN CASE fw.type \in {"PEONY", "CHRYSANTHEMUM"} ->
            LET chrys == fw.type = "CHRYSANTHEMUM"
            IN [i \in 1..numParticles |->
                  Request(explosionPos,
                          BurstVel(Draw(Dirs, r + i),
                                   (ForceDraw(baseForce, 8, 12, r \div 2 + i)
                                      * (IF chrys THEN 105 ELSE 100)) \div 100,
                                   inheritedVel),
                          25500, "EXPLOSION",
                          [NoOptions EXCEPT !.lifespan =
                             (Draw(<<1000, 1800>>, r + i) * (IF chrys THEN 11 ELSE 10))
                               \div 10])]
       [] fw.type = "PALM" ->
            LET mainBranches == Draw(<<4, 5, 6>>, r)
                particlesPerBranch == numParticles \div mainBranches
            IN [k \in 1..(mainBranches * particlesPerBranch) |->
                  LET i == (k - 1) \div particlesPerBranch
                      branchForce == (baseForce * Draw(<<12, 16>>, r + i)) \div 10
                      baseVel == VScale(BranchDir(i, mainBranches), branchForce, 1000)
                      variation == VScale(Draw(Dirs, r + k), (baseForce * 35) \div 100, 1)
                  IN Request(explosionPos, VAdd(VAdd(baseVel, variation), inheritedVel),
                             25500, "EXPLOSION",
                             [NoOptions EXCEPT !.lifespan = Draw(<<1500, 2500>>, r + k)])]
       [] fw.type = "WILLOW" ->
            [i \in 1..numParticles |->
               Request(explosionPos,
                       BurstVel(Draw(Dirs, r + i), ForceDraw(baseForce, 4, 8, r \div 2 + i),
                                inheritedVel),
                       25500, "EXPLOSION",
                       [NoOptions EXCEPT !.lifespan = Draw(<<3000, 5000>>, r + i),
                                         !.fadeRate = 4])]
       [] fw.type = "STROBE" ->
            [i \in 1..LoopCount(numParticles, 7) |->
               Request(explosionPos,
                       BurstVel(Draw(Dirs, r + i), ForceDraw(baseForce, 7, 11, r \div 2 + i),
                                inheritedVel),
                       25500, "STROBE",
                       [NoOptions EXCEPT !.lifespan = Draw(<<1500, 3000>>, r + i),
                                         !.strobeRate = Draw(<<5, 10>>, r + i)])]
       [] fw.type = "CRACKLING" ->
            [i \in 1..LoopCount(numParticles, 8) |->
               Request(explosionPos,
                       BurstVel(Draw(Dirs, r + i), ForceDraw(baseForce, 6, 10, r \div 2 + i),
                                inheritedVel),
                       25500, "CRACKLE_SOURCE",
                       [NoOptions EXCEPT !.lifespan = Draw(<<800, 1500>>, r + i),
                                         !.crackleRate = Draw(<<3, 8>>, r + i)])]
       [] OTHER ->
            [i \in 1..numParticles |->
               Request(explosionPos,
                       VAdd(VScale(Draw(Dirs \o <<Vec(0, 0)>>, r + i),
                                   ForceDraw(baseForce, 7, 13, r \div 2 + i), 1),
                            inheritedVel),
                       25500, "EXPLOSION",
                       [NoOptions EXCEPT !.lifespan = Draw(<<1200, 2200>>, r + i)])]

\* the types a mini-shell may be given
validSubTypes ==
  SelectSeq(FIREWORK_TYPES, LAMBDA ty : ty # "RANDOM" /\ ty # "MULTI_BREAK")

\* variant of Breaks: random(2, 5) taken as reaching 5
BreaksInclusive(r) == Draw(<<2, 5>>, r)

\* const breaks = floor(random(2, 5)): 2, 3 or 4; the model draws 2 or 4
Breaks(r) == Draw(<<2, 4>>, r)

\* the MULTI_BREAK branch of Firework.explode: 2 to 4 mini-shells, pushed as they are
MiniShells(fw, cfg, t, r) ==
  LET baseForce == (IF cfg.explosionSize # 0 THEN cfg.explosionSize ELSE 400) * 10
      inheritedVel == VScale(fw.shell.vel, 1, 10)
      breaks == Breaks(r)
  IN [i \in 1..breaks |->
        [NewParticle(fw.shell.pos,
                     VAdd(VScale(Draw(Dirs, r + i),
                                 ForceDraw(baseForce, 6, 10, r \div 2 + i), 1),
                          VScale(inheritedVel, 15, 10)),
                     20000, "MINI_SHELL", NoOptions, t, Draw(<<1500, 2500>>, r + i))
           EXCEPT !.delay = Draw(<<400, 900>>, r + i),
                  !.subType = Draw(validSubTypes, 2 * r + i - 1),
                  !.palette = Draw(<<1, 4>>, r + i),
                  !.configRef = "config"]]

\* variant of explode: the switch has no default branch
explodeKnownOnly(fw, ps, cfg, t, r) ==
  IF fw.type = "MULTI_BREAK"
  THEN ps \o MiniShells(fw, cfg, t, r)
  ELSE IF fw.type \in {"PEONY", "CHRYSANTHEMUM", "PALM", "WILLOW", "STROBE",
                       "CRACKLING"}
  THEN CreateAll(ps, cfg, ExplodeRequests(fw, cfg, r), 1, t, r)
  ELSE ps

\* Firework.explode: the particles list after it
explode(fw, ps, cfg, t, r) ==
  IF fw.type = "MULTI_BREAK"
  THEN ps \o MiniShells(fw, cfg, t, r)
  ELSE CreateAll(ps, cfg, ExplodeRequests(fw, cfg, r), 1, t, r)

\* variant of Apex: the velocity is compared with 0.5 instead of -0.5
ApexDescending(fw) ==
  /\ fw.shell.missing \notin {"vel", "pos"}
  /\ fw.shell.vel.y >= 50 \/ fw.shell.pos.y <= fw.explosionAltitude

\* the apex condition of Firework.update, tested on a shell that has vel and pos
Apex(fw) ==
  /\ fw.shell.missing \notin {"vel", "pos"}
  /\ fw.shell.vel.y >= -50 \/ fw.shell.pos.y <= fw.explosionAltitude

\* particles.includes(this.shell)
IncludesShell(ps, fw) == \E i \in 1..Len(ps) : ps[i].id = fw.id

\* the shell object after update: in the list (if it is there) and in the Firework
WriteShell(ps, shell) == [i \in 1..Len(ps) |-> IF ps[i].id = shell.id THEN shell ELSE ps[i]]

\* what a run of explode() leaves for the history: the Firework as it was, the
\* list before (ps) and after (ps1)
PrimaryBurst(fw, ps, ps1, t) ==
  [kind |-> "primary", fw |-> fw.id, type |-> fw.type,
   age |-> t - fw.shell.timeCreated, delay |-> 0,
   lenBefore |-> Len(ps), shellVel |-> fw.shell.vel,
   pos |-> fw.shell.pos,
   created |-> SubSeq(ps1, Len(ps) + 1, Len(ps1))]

\* variant of ShellGone: the test for a shell that left the list is left out
ShellGoneIgnored(fw, ps, exploded, bursts) ==
  [fw |-> fw, ps |-> ps, exploded |-> exploded, bursts |-> bursts]

\* the second test of Firework.update: a Firework still in 'ASCENT' whose shell
\* has left the particles list is marked done
ShellGone(fw, ps, exploded, bursts) ==
  [fw |-> IF fw.lifecycle = "ASCENT" /\ ~IncludesShell(ps, fw)
          THEN [fw EXCEPT !.lifecycle = "EXPLOSION", !.hasExploded = TRUE]
          ELSE fw,
   ps |-> ps, exploded |-> exploded, bursts |-> bursts]

\* Firework.update at the apex: explode() has made ps1 of the list ps, marked is
\* the Firework with lifecycle and hasExploded set, shell1 the shell after
\* setFading(0.1)
Exploded(fw, marked, ps, ps1, shell1, t) ==
  ShellGone([marked EXCEPT !.shell = shell1], WriteShell(ps1, shell1), TRUE,
            <<PrimaryBurst(fw, ps, ps1, t)>>)

\* variant of FireworkUpdate: explode() runs at the apex, and neither lifecycle
\* nor hasExploded is set after it
FireworkUpdateUnmarked(fw, ps, cfg, t, r) ==
  IF fw.lifecycle = "ASCENT" /\ Apex(fw) /\ ~fw.hasExploded
  THEN Exploded(fw, fw, ps, explode(fw, ps, cfg, t, r),
                setFading(fw.shell, 1000, t), t)
  ELSE ShellGone(fw, ps, FALSE, << >>)

\* Firework.update: the Firework, the particles list, whether explode() ran
FireworkUpdate(fw, ps, cfg, t, r) ==
  IF fw.lifecycle = "ASCENT" /\ Apex(fw) /\ ~fw.hasExploded
  THEN Exploded(fw, [fw EXCEPT !.lifecycle = "EXPLOSION", !.hasExploded = TRUE],
                ps, explode(fw, ps, cfg, t, r), setFading(fw.shell, 1000, t), t)
  ELSE ShellGone(fw, ps, FALSE, << >>)

\* variant of done: the lifecycle is compared with a state it never takes
doneWhenFaded(fw) == fw.lifecycle = "FADED"

\* Firework.done
done(fw) == fw.lifecycle = "EXPLOSION"

-----------------------------------------------------------------------------
(* FireworkSystem.  A world is the part of the state a handler works on, and  *)
(* what it logs on the way: [ps, fws, launched, calls, retired, lastLaunch,   *)
(* bursts, fades, updated, threw].                                            *)

\* a launch position: a vector, null, or an object whose x is no number
Pos(kind, x, y) == [kind |-> kind, x |-> x, y |-> y]

\* pos && typeof pos.x === 'number' && typeof pos.y === 'number'
ValidPos(pos) == pos.kind = "vector"

\* the draws of one handler run: k for the launch kinematics, ty for random(types),
\* e for everything drawn while particles and fireworks are updated
NoDraws == [k |-> 0, ty |-> 1, e |-> 0]

\* FireworkSystem.launch: the type of the new Firework, ty being the draw of
\* random(types) among the types but 'RANDOM'
LaunchType(cfg, typeOverride, ty) ==
  IF (IF typeOverride # Null THEN typeOverride ELSE cfg.fireworkType) = "RANDOM"
  THEN FIREWORK_TYPES[ty]
  ELSE IF typeOverride # Null THEN typeOverride ELSE cfg.fireworkType

\* createVector(random(-1.5, 1.5), random(-18, -24))
launchVel(k) == Vec(Draw(<<-150, 150>>, k), Draw(<<-1800, -2400>>, k))

\* fireworks.push(new Firework(...)), whose constructor pushes its shell onto
\* the particles list
Push(w, fw) ==
  [w EXCEPT !.fws = Append(w.fws, fw),
            !.ps = Append(w.ps, fw.shell),
            !.launched = w.launched + 1]

\* variant of launch: neither the cap nor the position is tested
launchUnchecked(w, cfg, pos, typeOverride, t, h, rnd) ==
  Push(w, NewFirework(w.launched + 1, Vec(pos.x, pos.y), launchVel(rnd.k),
                      LaunchType(cfg, typeOverride, rnd.ty), t, h, rnd.k))

\* FireworkSystem.launch(pos, typeOverride)
launch(w, cfg, pos, typeOverride, t, h, rnd) ==
  IF Len(w.ps) >= cfg.maxTotalParticles THEN w
  ELSE IF ~ValidPos(pos) THEN w
  ELSE Push(w, NewFirework(w.launched + 1, Vec(pos.x, pos.y), launchVel(rnd.k),
                           LaunchType(cfg, typeOverride, rnd.ty), t, h, rnd.k))

\* FireworkSystem.launchRandom
launchRandom(w, cfg, t, wd, h, rnd) ==
  LET xPos == Draw(<<wd * 15, wd * 85>>, rnd.k)
      startPos == Pos("vector", xPos, h * 100)
  IN launch(w, cfg, startPos, cfg.fireworkType, t, h, rnd)

\* FireworkSystem.manualLaunch(x): x is << >> for the call without arguments
\* (x = null), which takes mouseX, and <<x>> otherwise
manualLaunch(w, cfg, x, mouseX, t, h, rnd) ==
  LET launchX == IF x # << >> THEN x[1] ELSE mouseX
      startPos == Pos("vector", launchX, h * 100)
  IN launch(w, cfg, startPos, cfg.fireworkType, t, h, rnd)

\* millis() - lastLaunch > 1000 / launchFrequency
LaunchDue(cfg, last, t) == (t - last) * cfg.launchFrequency > 10000

\* variant of SystemUpdate: particles.length is not tested before launchRandom
SystemUpdateNoCapTest(w, cfg, t, wd, h, rnd) ==
  IF cfg.autoLaunch /\ LaunchDue(cfg, w.lastLaunch, t)
  THEN [launchRandom(w, cfg, t, wd, h, rnd) EXCEPT !.lastLaunch = t]
  ELSE w

\* FireworkSystem.update
SystemUpdate(w, cfg, t, wd, h, rnd) ==
  IF cfg.autoLaunch /\ LaunchDue(cfg, w.lastLaunch, t)
  THEN IF Len(w.ps) < cfg.maxTotalParticles
       THEN [launchRandom(w, cfg, t, wd, h, rnd) EXCEPT !.lastLaunch = t]
       ELSE w
  ELSE w

\* FireworkSystem.getWind: wind + noise * wind * 0.5 with noise at -1 or 1
getWind(cfg, k) == Vec(Draw(<<cfg.wind \div 2, (cfg.wind * 3) \div 2>>, k), 0)

-----------------------------------------------------------------------------
(* draw *)

\* write the shell object through to the Firework that holds it
SyncShell(fws, p) ==
  [j \in 1..Len(fws) |->
     IF p.id # 0 /\ fws[j].id = p.id THEN [fws[j] EXCEPT !.shell = p] ELSE fws[j]]

\* what one update did to a particle that was fading when it began
FadeLog(p, q, t) ==
  IF p.isFading
  THEN <<[alphaBefore |-> p.alpha, alphaAfter |-> q.alpha,
          elapsed |-> (t - p.fadeStartTime) * 10, fadeDuration |-> p.fadeDuration,
          fadingAfter |-> q.isFading]>>
  ELSE << >>

\* gravity, wind and drag, as draw applies them to a particle before its update
Forces(p, cfg, k) ==
  applyDrag(applyForce(applyForce(p, Vec(0, cfg.gravity)), getWind(cfg, k)),
            cfg.airDrag)

\* what one Particle.update made of the velocity, position, acceleration
\* and trail of a particle that is no mini-shell
MoveLog(p, q) ==
  IF p.role # "MINI_SHELL" /\ ~Malformed(p)
  THEN <<[vel |-> p.vel, acc |-> p.acc, pos |-> p.pos,
          velAfter |-> q.vel, posAfter |-> q.pos, accAfter |-> q.acc,
          trail |-> p.trail, trailAfter |-> q.trail]>>
  ELSE << >>

\* what the update of a particle that is no mini-shell appended to the list
SpawnLog(ps, i, after) ==
  IF ps[i].role # "MINI_SHELL" /\ Len(after) > Len(ps)
  THEN <<[role |-> ps[i].role, fading |-> after[i].isFading,
          lenBefore |-> Len(ps),
          created |-> SubSeq(after, Len(ps) + 1, Len(after))]>>
  ELSE << >>

\* the rest of one round of the particle loop: particles[i] was p1 when its
\* update began and u is what the update made; a particle that is done is
\* spliced out
AfterUpdate(w, i, p1, u, t) ==
  [w EXCEPT !.ps = IF isDone(u.ps[i]) THEN Splice(u.ps, i) ELSE u.ps,
            !.fws = SyncShell(w.fws, u.ps[i]),
            !.bursts = w.bursts \o u.bursts,
            !.fades = w.fades \o FadeLog(p1, u.ps[i], t),
            !.moves = w.moves \o MoveLog(p1, u.ps[i]),
            !.spawns = w.spawns \o SpawnLog(w.ps, i, u.ps),
            !.visits = w.visits \o <<[index |-> i, entry |-> w.ps[i]]>>,
            !.updated = w.updated + 1]

\* one round of the particle loop, p1 being particles[i] with the forces on it
ParticleRound(w, i, p1, cfg, t, dT, r) ==
  AfterUpdate(w, i, p1,
              ParticleUpdate([w.ps EXCEPT ![i] = p1], i, cfg, t, dT, r), t)

RECURSIVE DrawParticlesUnchecked(_, _, _, _, _, _)
\* variant of DrawParticles: the loop does not test the entry; p.applyForce
\* raises a TypeError on an entry that is null or has no acc, which ends draw
DrawParticlesUnchecked(w, i, cfg, t, dT, rnd) ==
  IF i < 1 \/ w.threw THEN w
  ELSE IF w.ps[i].missing \in {"null", "acc"} THEN [w EXCEPT !.threw = TRUE]
  ELSE DrawParticlesUnchecked(
         ParticleRound(w, i, Forces(w.ps[i], cfg, rnd.e + i), cfg, t, dT,
                       rnd.e + i),
         i - 1, cfg, t, dT, rnd)

RECURSIVE DrawParticles(_, _, _, _, _, _)
\* the particle loop of draw, from index i down to 1
DrawParticles(w, i, cfg, t, dT, rnd) ==
  IF i < 1 THEN w
  ELSE IF Malformed(w.ps[i])
  THEN DrawParticles([w EXCEPT !.ps = Splice(w.ps, i)], i - 1, cfg, t, dT, rnd)
  ELSE DrawParticles(ParticleRound(w, i, Forces(w.ps[i], cfg, rnd.e + i), cfg,
                                   t, dT, rnd.e + i),
                     i - 1, cfg, t, dT, rnd)

\* one round of the firework loop: u is what update made of fireworks[i]; a
\* Firework that is done is spliced out
FireworkRound(w, i, u) ==
  [w EXCEPT !.ps = u.ps,
            !.fws = IF done(u.fw) THEN Splice(w.fws, i)
                    ELSE [w.fws EXCEPT ![i] = u.fw],
            !.calls = IF u.exploded
                      THEN [w.calls EXCEPT ![u.fw.id] = @ + 1] ELSE w.calls,
            !.retired = IF done(u.fw) THEN w.retired \cup {u.fw.id}
                        ELSE w.retired,
            !.bursts = w.bursts \o u.bursts,
            !.fwUpdates = w.fwUpdates \o
               <<[id |-> u.fw.id, vy |-> w.fws[i].shell.vel.y,
                  y |-> w.fws[i].shell.pos.y,
                  explosionAltitude |-> w.fws[i].explosionAltitude,
                  shellListed |-> IncludesShell(w.ps, w.fws[i]),
                  shell |-> w.fws[i].shell, shellAfter |-> u.fw.shell,
                  exploded |-> u.exploded, done |-> done(u.fw)]>>]

RECURSIVE DrawFireworks(_, _, _, _, _)
\* the firework loop of draw, from index i down to 1
DrawFireworks(w, i, cfg, t, rnd) ==
  IF i < 1 THEN w
  ELSE DrawFireworks(
         FireworkRound(w, i, FireworkUpdate(w.fws[i], w.ps, cfg, t, rnd.e + i)),
         i - 1, cfg, t, rnd)

\* variant of ParticleLoop: the loop starts at particles.length - 2
ParticleLoopShort(w, cfg, t, dT, rnd) ==
  DrawParticles([w EXCEPT !.atSweep = w.ps], Len(w.ps) - 1, cfg, t, dT, rnd)

\* for (let i = particles.length - 1; i >= 0; i--)
ParticleLoop(w, cfg, t, dT, rnd) ==
  DrawParticles([w EXCEPT !.atSweep = w.ps], Len(w.ps), cfg, t, dT, rnd)

\* for (let i = fireworks.length - 1; i >= 0; i--)
FireworkLoop(w, cfg, t, rnd) == DrawFireworks(w, Len(w.fws), cfg, t, rnd)

\* draw, after the test that system exists
DrawBody(w, cfg, t, dT, wd, h, rnd) ==
  FireworkLoop(ParticleLoop(SystemUpdate(w, cfg, t, wd, h, rnd), cfg, t, dT, rnd),
               cfg, t, rnd)

-----------------------------------------------------------------------------
(* State machine *)

\* milliseconds between two frames
FrameMillis == {250, 500}

\* where the pointer is pressed, in px: off the canvas edge, on the canvas, on
\* the panel
MousePoints == {Vec(0, 100), Vec(300, 400), Vec(900, 50)}

\* getBoundingClientRect() of the control panel, or no panel on the page
\* (guis.length = 0): present is FALSE
PanelRects ==
  {[present |-> FALSE, left |-> 0, right |-> 0, top |-> 0, bottom |-> 0],
   [present |-> TRUE, left |-> 740, right |-> 985, top |-> 0, bottom |-> 300]}

\* the configuration after the constructor and the user's panel settings
Defaults ==
  [autoLaunch |-> TRUE, launchFrequency |-> 5, explosionSize |-> 400,
   particleCount |-> MaxCount, wind |-> 0, gravity |-> 8, airDrag |-> 0,
   particleType |-> "CLASSIC", fireworkType |-> "RANDOM",
   maxTotalParticles |-> MaxCap]

\* thick air and strong gravity: a shell reaches its apex within three frames
ThickAir == [Defaults EXCEPT !.explosionSize = 100, !.gravity = 50, !.airDrag = 50]

\* still air: a shell keeps climbing for 219 frames and more
Configs ==
  {[Defaults EXCEPT !.fireworkType = "PEONY"],
   [Defaults EXCEPT !.autoLaunch = FALSE, !.fireworkType = "PEONY"],
   ThickAir,
   [ThickAir EXCEPT !.autoLaunch = FALSE, !.particleCount = MaxCount - 1]}

World ==
  [ps |-> particles, fws |-> fireworks, launched |-> launched,
   calls |-> explodeCalls, retired |-> retired, lastLaunch |-> lastLaunch,
   bursts |-> << >>, fades |-> << >>, moves |-> << >>, fwUpdates |-> << >>,
   spawns |-> << >>, visits |-> << >>, atSweep |-> << >>, updated |-> 0,
   threw |-> FALSE]

\* what a frame leaves behind for the history variable trace: the state draw
\* started from, what system.update built, the bursts set off, the fading
\* particles updated
Trace(w, due) ==
  [nParticles |-> Len(particles),
   nMiniShells |-> Len(SelectSeq(particles, LAMBDA p : p.role = "MINI_SHELL")),
   nMalformed |-> Len(SelectSeq(particles, Malformed)),
   nFireworks |-> Len(fireworks),
   lastLaunch |-> lastLaunch,
   autoLaunch |-> config.autoLaunch,
   due |-> due,
   built |-> w.launched - launched,
   bursts |-> w.bursts,
   fades |-> w.fades,
   fwUpdates |-> w.fwUpdates,
   moves |-> w.moves,
   spawns |-> w.spawns,
   visits |-> w.visits,
   atSweep |-> w.atSweep,
   enabledAt |-> trace.enabledAt,
   updated |-> w.updated]

\* a handler's result becomes the state.  The model constructs MaxLaunches
\* Fireworks at most from states below the particle cap; at the cap launch()
\* returns before it constructs one, so no bound is put on it there
Commit(w) ==
  /\ \/ w.launched <= MaxLaunches
     \/ Len(particles) >= config.maxTotalParticles
  /\ particles' = w.ps
  /\ fireworks' = w.fws
  /\ launched' = w.launched
  /\ explodeCalls' = w.calls
  /\ retired' = w.retired
  /\ lastLaunch' = w.lastLaunch
  /\ threw' = w.threw

\* the draws a handler run can tell apart
DrawsFor(canLaunch, busy) ==
  [k : IF canLaunch THEN 0..1 ELSE {0},
   ty : IF canLaunch /\ config.fireworkType = "RANDOM" THEN 1..7 ELSE {1},
   e : IF busy THEN 0..1 ELSE {0}]

\* a frame draws while it updates: a burst goes off, a crackle source may
\* spawn, or wind blows on a particle
Busy(w) ==
  \/ w.bursts # << >>
  \/ \E i \in 1..Len(particles) : particles[i].role = "CRACKLE_SOURCE"
  \/ config.wind # 0 /\ Len(particles) > 0

\* what setup leaves of the sketch.  The constructor raised: setup catches it
\* with system unset and calls noLoop().  initGUI raised: initGUI catches it
\* itself and the constructor goes on without a panel
SetupOutcome(ctorRaises, guiRaises) ==
  [system |-> ~ctorRaises, looping |-> ~ctorRaises,
   gui |-> ~ctorRaises /\ ~guiRaises]

\* the state after setup, the configuration being one of cfgs and setup having
\* gone one of the ways of outcomes (config stands for the record the constructor
\* builds; nothing reads it while system is unset)
InitAfter(cfgs, outcomes) ==
  /\ now = 0
  /\ deltaTime = 0
  /\ width = 1000
  /\ height = 800
  /\ config \in cfgs
  /\ lastLaunch = 0
  /\ particles = << >>
  /\ fireworks = << >>
  /\ launched = 0
  /\ explodeCalls = [id \in 1..MaxLaunches + 1 |-> 0]
  /\ retired = {}
  /\ trace = [nParticles |-> 0, nMiniShells |-> 0, nMalformed |-> 0,
              nFireworks |-> 0,
              lastLaunch |-> 0, autoLaunch |-> config.autoLaunch, due |-> FALSE,
              built |-> 0, bursts |-> << >>,
              fades |-> << >>, fwUpdates |-> << >>, moves |-> << >>,
              spawns |-> << >>, visits |-> << >>, atSweep |-> << >>,
              enabledAt |-> 0, updated |-> 0]
  /\ threw = FALSE
  /\ \E o \in outcomes :
       system = o.system /\ looping = o.looping /\ gui = o.gui

\* the state after a setup in which nothing raised
InitIn(cfgs) == InitAfter(cfgs, {SetupOutcome(FALSE, FALSE)})

Init == InitIn(Configs)

\* draw once system is set: the updates of one frame of d milliseconds
Drawn(d) ==
  \E rnd \in DrawsFor(config.autoLaunch /\ LaunchDue(config, lastLaunch, now + d),
                     Busy(DrawBody(World, config, now + d, d, width, height,
                                   NoDraws))) :
    \E w \in {DrawBody(World, config, now + d, d, width, height, rnd)} :
      /\ Commit(w)
      /\ trace' = Trace(w, config.autoLaunch
                             /\ LaunchDue(config, lastLaunch, now + d))

\* one frame: while the sketch loops, p5 advances millis() and deltaTime and
\* calls draw(), which returns at once if system is not set
FrameOf(d, until) ==
  /\ looping
  /\ now + d <= until
  /\ IF system THEN Drawn(d)
     ELSE UNCHANGED <<lastLaunch, particles, fireworks, launched, explodeCalls,
                      retired, trace, threw>>
  /\ now' = now + d
  /\ deltaTime' = d
  /\ UNCHANGED <<width, height, config, system, looping, gui>>

Frame == \E d \in FrameMillis : FrameOf(d, MaxTime)

\* mouseX > 0 && mouseX < width && mouseY > 0 && mouseY < height
OnCanvas(m) == m.x > 0 /\ m.x < width /\ m.y > 0 /\ m.y < height

\* the pointer is within the panel's rectangle, if the page has a panel
isOverGUI(m, rect) ==
  /\ rect.present
  /\ m.x >= rect.left /\ m.x <= rect.right
  /\ m.y >= rect.top /\ m.y <= rect.bottom

\* variant of PressAt: config.autoLaunch is not tested
PressAtAnyMode(m, rect) ==
  \E goes \in {system /\ OnCanvas(m) /\ ~isOverGUI(m, rect)} :
    \E rnd \in DrawsFor(goes, FALSE) :
      \E w \in {IF goes
                THEN manualLaunch(World, config, <<m.x * 100>>, m.x * 100, now,
                                  height, rnd)
                ELSE World} :
        /\ Commit(w)
        /\ UNCHANGED <<now, deltaTime, width, height, config, trace, system,
                      looping, gui>>

\* mousePressed with the pointer at m and the panel (if any) at rect
PressAt(m, rect) ==
  \E goes \in {system /\ ~config.autoLaunch /\ OnCanvas(m) /\ ~isOverGUI(m, rect)} :
    \E rnd \in DrawsFor(goes, FALSE) :
      \E w \in {IF goes
                THEN manualLaunch(World, config, <<m.x * 100>>, m.x * 100, now,
                                  height, rnd)
                ELSE World} :
        /\ Commit(w)
        /\ UNCHANGED <<now, deltaTime, width, height, config, trace, system,
                      looping, gui>>

MousePressed == \E m \in MousePoints, rect \in PanelRects : PressAt(m, rect)

\* the panel's 'Launch Now!' button: manualLaunch() without arguments, the
\* pointer resting on the panel
LaunchNow ==
  /\ gui
  /\ \E rnd \in DrawsFor(TRUE, FALSE) :
       \E w \in {manualLaunch(World, config, << >>, 90000, now, height, rnd)} :
       /\ Commit(w)
       /\ UNCHANGED <<now, deltaTime, width, height, config, trace, system,
                      looping, gui>>

\* positions handed to launch(): a vector, null, an object without a numeric x
LaunchPositions ==
  {Pos("vector", 50000, 80000), Pos("null", 0, 0), Pos("nonumber", 0, 80000)}

\* a direct call of system.launch(pos)
CallLaunch(pos) ==
  /\ system
  /\ \E rnd \in DrawsFor(TRUE, FALSE) :
       \E w \in {launch(World, config, pos, Null, now, height, rnd)} :
       /\ Commit(w)
       /\ UNCHANGED <<now, deltaTime, width, height, config, trace, system,
                      looping, gui>>

LaunchCall == \E pos \in LaunchPositions : CallLaunch(pos)

\* variant of resetLaunchTimer: lastLaunch is left as it is
resetLaunchTimerIdle(cfg, last, t) == last

\* FireworkSystem.resetLaunchTimer, the onChange of the panel's Auto Launch box
resetLaunchTimer(cfg, last, t) == IF cfg.autoLaunch THEN t ELSE last

\* the panel's Auto Launch box is clicked: dat.GUI sets config.autoLaunch and
\* calls onChange; trace.enabledAt keeps the time the box was last ticked
ToggleAutoLaunch ==
  /\ gui
  /\ config' = [config EXCEPT !.autoLaunch = ~config.autoLaunch]
  /\ lastLaunch' = resetLaunchTimer(config', lastLaunch, now)
  /\ trace' = [trace EXCEPT !.enabledAt = IF config'.autoLaunch THEN now ELSE @]
  /\ threw' = FALSE
  /\ UNCHANGED <<now, deltaTime, width, height, particles, fireworks, launched,
                 explodeCalls, retired, system, looping, gui>>

Next == Frame \/ MousePressed \/ LaunchNow \/ LaunchCall

Spec == Init /\ [][Next]_vars

-----------------------------------------------------------------------------
(* Calls of launch() with a type tag of the caller's choice *)

\* tags the switch of Firework.explode has no case for
UnknownTypes == {"FOUNTAIN"}

\* a direct call of system.launch(pos, typeOverride)
CallLaunchTyped(pos, ty) ==
  /\ system
  /\ \E rnd \in DrawsFor(TRUE, FALSE) :
       \E w \in {launch(World, config, pos, ty, now, height, rnd)} :
       /\ Commit(w)
       /\ UNCHANGED <<now, deltaTime, width, height, config, trace, system,
                      looping, gui>>

LaunchTyped ==
  \E ty \in UnknownTypes : CallLaunchTyped(Pos("vector", 50000, 80000), ty)

NextTyped == Frame \/ LaunchTyped

SpecTyped == Init /\ [][NextTyped]_vars

-----------------------------------------------------------------------------
(* the sketch with 'FLUID' chosen as the Particle Style of the panel *)

ConfigsFluid ==
  {[ThickAir EXCEPT !.particleType = "FLUID", !.fireworkType = "PEONY"],
   [ThickAir EXCEPT !.particleType = "FLUID", !.fireworkType = "PEONY",
                    !.autoLaunch = FALSE]}

InitFluid == InitIn(ConfigsFluid)

SpecFluid == InitFluid /\ [][Next]_vars

-----------------------------------------------------------------------------
(* the sketch with CRACKLING shells and a cap that leaves crackles room *)

ConfigsCrackle ==
  {[ThickAir EXCEPT !.fireworkType = "CRACKLING", !.particleCount = MaxCount - 2,
                    !.maxTotalParticles = MaxCap + 5],
   [ThickAir EXCEPT !.fireworkType = "CRACKLING", !.particleCount = MaxCount - 2,
                    !.maxTotalParticles = MaxCap + 5, !.autoLaunch = FALSE]}

InitCrackle == InitIn(ConfigsCrackle)

NextCrackle == Frame \/ LaunchNow

SpecCrackle == InitCrackle /\ [][NextCrackle]_vars

-----------------------------------------------------------------------------
(* the sketch at ten frames a second: a particle is updated more often than
   its trail is long *)

\* time the quick frames run for, in ms
MaxTrailTime == 2000

QuickMillis == {100}

FrameQuick == \E d \in QuickMillis : FrameOf(d, MaxTrailTime)

ConfigsTrail ==
  {[Defaults EXCEPT !.autoLaunch = FALSE, !.fireworkType = "PEONY"],
   [ThickAir EXCEPT !.autoLaunch = FALSE, !.fireworkType = "WILLOW"]}

InitTrail == InitIn(ConfigsTrail)

NextTrail == FrameQuick \/ LaunchNow

SpecTrail == InitTrail /\ [][NextTrail]_vars

-----------------------------------------------------------------------------
(* the sketch with autoLaunch off and no launch after the first half second,
   run for long enough that every particle's life and fade have passed *)

\* time the unattended sketch runs for, in ms
MaxLiveTime == 10000
\* the user's last launch comes at this time at the latest, in ms
LaunchBy == 500

FrameLive == \E d \in FrameMillis : FrameOf(d, MaxLiveTime)

LaunchEarly == now <= LaunchBy /\ LaunchNow

ConfigsLive ==
  {[Defaults EXCEPT !.autoLaunch = FALSE, !.fireworkType = "PEONY"],
   [ThickAir EXCEPT !.autoLaunch = FALSE, !.particleCount = MaxCount - 1],
   [ThickAir EXCEPT !.fireworkType = "CRACKLING", !.particleCount = MaxCount - 2,
                    !.maxTotalParticles = MaxCap + 5, !.autoLaunch = FALSE]}

InitLive == InitIn(ConfigsLive)

NextLive == FrameLive \/ LaunchEarly

\* what a frame does to the clock.  With autoLaunch off a frame launches
\* nothing, so FrameLive is enabled exactly when Tick is, and the steps of
\* NextLive that are Tick steps are the FrameLive steps
Tick ==
  /\ looping
  /\ \E d \in FrameMillis : now + d <= MaxLiveTime /\ now' = now + d

\* p5 calls draw for every frame while the sketch loops
SpecLive == InitLive /\ [][NextLive]_vars /\ WF_now(Tick)

-----------------------------------------------------------------------------
(* the sketch with the Auto Launch box of the panel in use, at two launches a
   second *)

ConfigsToggle ==
  {[ThickAir EXCEPT !.launchFrequency = 20, !.fireworkType = "PEONY"],
   [ThickAir EXCEPT !.launchFrequency = 20, !.fireworkType = "PEONY",
                    !.autoLaunch = FALSE]}

InitToggle == InitIn(ConfigsToggle)

NextToggle == Frame \/ ToggleAutoLaunch

SpecToggle == InitToggle /\ [][NextToggle]_vars

-----------------------------------------------------------------------------
(* The earlier version of the sketch, src/fireworks.js.  Every Firework keeps
   its own particles; the shell is no member of any list.  Of the state only
   now, deltaTime, width, height, config, lastLaunch, fireworks, launched,
   explodeCalls, retired and trace are in use.  Particle.trail, the sound and
   the display are left out: nothing reads them back. *)

OLD_FIREWORK_TYPES == <<"PEONY", "CHRYSANTHEMUM", "PALM", "RANDOM">>

\* largest value of millis() explored in the earlier version
MaxOldTime == 6000
\* number of Firework objects constructed at most in the earlier version
MaxOldLaunches == 2
\* the presses of the pointer come at this time at the latest, in ms
OldLaunchBy == 32
\* config.particleCount in the earlier version (the panel offers 500..5000)
OldCount == 2

\* FireworkSystem.config with autoLaunch ticked or not, and the Particle Type
OldConfigs ==
  {[launchFrequency |-> 5, explosionSize |-> 300, particleCount |-> OldCount,
    wind |-> 20, gravity |-> 8, physicsAccuracy |-> 3, autoLaunch |-> a,
    particleType |-> ty] :
     a \in BOOLEAN, ty \in {"QUANTUM", "FLUID"}}

\* Particle.constructor
OldParticle(pos, vel) ==
  [pos |-> pos, vel |-> vel, acc |-> Vec(0, 0), alpha |-> 25500, fluid |-> FALSE]

\* Particle.applyForce
OldApplyForce(p, f) == [p EXCEPT !.acc = VAdd(p.acc, f)]

\* Particle.update after the fluid step: vel += acc; pos += vel; acc = 0;
\* alpha -= deltaTime * 0.5
OldMove(q, dT) ==
  [q EXCEPT !.vel = VAdd(q.vel, q.acc),
            !.pos = VAdd(VAdd(q.pos, q.vel), q.acc),
            !.acc = Vec(0, 0),
            !.alpha = q.alpha - dT * 50]

\* Particle.update; applyFluidBehavior multiplies the velocity by 0.97 and
\* adds a force of pressure * 0.01, which is 0
OldParticleUpdate(p, dT) ==
  OldMove(IF p.fluid THEN [p EXCEPT !.vel = VScale(p.vel, 97, 100)] ELSE p, dT)

RECURSIVE OldUpdateTimes(_, _, _)
\* for (let i = 0; i < physicsAccuracy; i++) p.update()
OldUpdateTimes(p, n, dT) ==
  IF n <= 0 THEN p ELSE OldUpdateTimes(OldParticleUpdate(p, dT), n - 1, dT)

\* Firework.constructor and initShell; calls counts the runs of explode()
OldFirework(id, pos, type, k) ==
  [id |-> id, type |-> type, lifecycle |-> "ASCENT",
   shell |-> OldParticle(pos, Vec(0, Draw(<<-1200, -1800>>, k))),
   particles |-> << >>, calls |-> 0]

\* p5.Vector.fromAngle(a) for the i-th of n steps of TWO_PI / n, in thousandths
OldPeonyDir(i, n) ==
  CASE n = 2 -> <<Vec(1000, 0), Vec(-1000, 0)>>[i]
    [] n = 3 -> <<Vec(1000, 0), Vec(-500, 866), Vec(-500, -866)>>[i]
    [] OTHER -> BranchDir(i - 1, n)

\* createPeony, createChrysanthemum, createPalm, createRandom: the forces
OldForces(type, cfg, r) ==
  CASE type = "PEONY" ->
         [i \in 1..cfg.particleCount |->
            VScale(OldPeonyDir(i, cfg.particleCount),
                   Draw(<<cfg.explosionSize * 80, cfg.explosionSize * 100>>, r + i),
                   1000)]
    [] type = "CHRYSANTHEMUM" ->
         [i \in 1..cfg.particleCount |->
            VScale(Draw(Dirs \o <<Vec(0, 0)>>, r + i),
                   Draw(<<0, cfg.explosionSize * 50>>, r + i), 1)]
    [] type = "PALM" ->
         [i \in 1..cfg.particleCount |->
            VScale(Draw(<<Vec(1000, 0), Vec(707, 707), Vec(707, -707)>>, r + i),
                   Draw(<<cfg.explosionSize * 50, cfg.explosionSize * 100>>, r + i),
                   1000)]
    [] OTHER ->
         [i \in 1..cfg.particleCount |->
            VScale(Draw(Dirs \o <<Vec(0, 0)>>, r + i),
                   Draw(<<0, cfg.explosionSize * 100>>, r + i), 1)]

\* Firework.explode, each force through createParticle: a particle at the
\* shell with half the force as its velocity, fluid if the type is 'FLUID'
OldExplode(f, cfg, forces) ==
  [f EXCEPT !.calls = f.calls + 1,
            !.particles = f.particles \o
               [i \in 1..Len(forces) |->
                  [OldParticle(f.shell.pos, VScale(forces[i], 1, 2))
                     EXCEPT !.fluid = cfg.particleType = "FLUID"]]]

\* Firework.update in ASCENT: the gravity of the configuration on the shell,
\* and the shell's update
OldAscend(f, cfg, dT) ==
  [f EXCEPT !.shell =
     OldParticleUpdate(OldApplyForce(f.shell, Vec(0, cfg.gravity)), dT)]

\* Firework.update in ASCENT, after the shell's update: explode at vel.y >= 0
OldApex(f, cfg, r) ==
  IF f.lifecycle = "ASCENT" /\ f.shell.vel.y >= 0
  THEN [OldExplode(f, cfg, OldForces(f.type, cfg, r))
          EXCEPT !.lifecycle = "EXPLOSION"]
  ELSE f

\* the particles of f after physicsAccuracy updates each
OldParticlesStep(f, cfg, dT) ==
  [f EXCEPT !.particles =
     [i \in 1..Len(f.particles) |->
        OldUpdateTimes(f.particles[i], cfg.physicsAccuracy, dT)]]

\* Firework.update
OldFireworkUpdate(f, cfg, dT, r) ==
  OldParticlesStep(
    OldApex(IF f.lifecycle = "ASCENT" THEN OldAscend(f, cfg, dT) ELSE f, cfg, r),
    cfg, dT)

\* FireworkSystem.applyForces: gravity and noise2D(x, y) * wind on each
\* particle of each Firework, with noise at -1 or 1 as the position has it
OldApplyForces(fws, cfg) ==
  [j \in 1..Len(fws) |->
     [fws[j] EXCEPT !.particles =
        [i \in 1..Len(fws[j].particles) |->
           OldApplyForce(
             OldApplyForce(fws[j].particles[i], Vec(0, 8)),
             Vec(IF ((fws[j].particles[i].pos.x + fws[j].particles[i].pos.y)
                       \div 100) % 2 = 0
                 THEN cfg.wind ELSE -cfg.wind, 0))]]]

\* variant of OldDone: the particles are not looked at
OldDoneAtOnce(f) == f.lifecycle = "EXPLOSION"

\* Firework.done
OldDone(f) ==
  /\ f.lifecycle = "EXPLOSION"
  /\ \A i \in DOMAIN f.particles : f.particles[i].alpha <= 0

\* FireworkSystem.cleanup
OldCleanup(fws) == SelectSeq(fws, LAMBDA f : ~OldDone(f))

\* FireworkSystem.launch
OldLaunch(s, pos, type, k) ==
  [s EXCEPT !.fws = Append(s.fws, OldFirework(s.launched + 1, pos, type, k)),
            !.launched = s.launched + 1]

\* FireworkSystem.update: applyForces, cleanup, and launchRandom when due
OldSystemUpdate(fws, cfg, t, last, n, wd, h, rnd) ==
  IF cfg.autoLaunch /\ LaunchDue(cfg, last, t)
  THEN [OldLaunch([fws |-> OldCleanup(OldApplyForces(fws, cfg)),
                   launched |-> n, lastLaunch |-> last],
                  Vec(Draw(<<wd * 20, wd * 80>>, rnd.k), h * 100),
                  Draw(OLD_FIREWORK_TYPES, rnd.ty), rnd.k)
          EXCEPT !.lastLaunch = t]
  ELSE [fws |-> OldCleanup(OldApplyForces(fws, cfg)), launched |-> n,
        lastLaunch |-> last]

\* draw: fireworks.forEach(f => f.update())
OldUpdateAll(fws, cfg, dT, r) ==
  [j \in 1..Len(fws) |-> OldFireworkUpdate(fws[j], cfg, dT, r + j)]

\* the draws a handler run can tell apart
OldDraws(canLaunch, auto, busy) ==
  [k : IF canLaunch THEN 0..1 ELSE {0},
   ty : IF canLaunch /\ auto THEN 0..3 ELSE {0},
   e : IF busy THEN 0..1 ELSE {0}]

\* frameRate(60)
OldFrameMillis == {16}

\* what a frame has done: the Fireworks cleanup dropped, and for each Firework
\* updated whether it was in ASCENT, its shell's vel.y after the shell's
\* update, and whether explode() ran
OldTrace(before, s, after) ==
  [removed |-> SelectSeq(before, OldDone),
   updates |-> [j \in 1..Len(after) |->
                  [id |-> after[j].id,
                   ascending |-> s.fws[j].lifecycle = "ASCENT",
                   vy |-> after[j].shell.vel.y,
                   exploded |-> after[j].calls > s.fws[j].calls]]]

\* one frame of the earlier version: draw
OldFrame ==
  \E d \in OldFrameMillis :
    \E rnd \in OldDraws(config.autoLaunch /\ LaunchDue(config, lastLaunch, now + d),
                       config.autoLaunch,
                       \E j \in DOMAIN fireworks :
                         /\ fireworks[j].lifecycle = "ASCENT"
                         /\ fireworks[j].shell.vel.y + config.gravity >= 0) :
      \E s \in {OldSystemUpdate(fireworks, config, now + d, lastLaunch, launched,
                                width, height, rnd)} :
        \E after \in {OldUpdateAll(s.fws, config, d, rnd.e)} :
          /\ now + d <= MaxOldTime
          /\ s.launched <= MaxOldLaunches
          /\ fireworks' = after
          /\ lastLaunch' = s.lastLaunch
          /\ launched' = s.launched
          /\ explodeCalls' =
               [id \in DOMAIN explodeCalls |->
                  IF \E j \in DOMAIN after : after[j].id = id
                  THEN (CHOOSE f \in {after[j] : j \in DOMAIN after} : f.id = id).calls
                  ELSE explodeCalls[id]]
          /\ retired' = retired \cup
               ({fireworks[j].id : j \in DOMAIN fireworks}
                  \ {s.fws[j].id : j \in DOMAIN s.fws})
          /\ trace' = OldTrace(OldApplyForces(fireworks, config), s, after)
          /\ now' = now + d
          /\ deltaTime' = d
          /\ UNCHANGED <<width, height, config, particles, threw, system, looping,
                         gui>>

\* mousePressed: manualLaunch() unless autoLaunch is on
OldMousePressed ==
  /\ ~config.autoLaunch
  /\ launched < MaxOldLaunches
  /\ now <= OldLaunchBy
  /\ \E mouseX \in {300}, k \in 0..1 :
       \E s \in {OldLaunch([fws |-> fireworks, launched |-> launched,
                            lastLaunch |-> lastLaunch],
                           Vec(mouseX * 100, height * 100), "RANDOM", k)} :
         /\ fireworks' = s.fws
         /\ launched' = s.launched
  /\ UNCHANGED <<now, deltaTime, width, height, config, lastLaunch, particles,
                 explodeCalls, retired, trace, threw, system, looping, gui>>

InitOld ==
  /\ now = 0
  /\ deltaTime = 0
  /\ width = 1000
  /\ height = 800
  /\ config \in OldConfigs
  /\ lastLaunch = 0
  /\ particles = << >>
  /\ fireworks = << >>
  /\ launched = 0
  /\ explodeCalls = [id \in 1..MaxOldLaunches |-> 0]
  /\ retired = {}
  /\ trace = [removed |-> << >>, updates |-> << >>]
  /\ threw = FALSE
  /\ system = TRUE
  /\ looping = TRUE
  /\ gui = TRUE

NextOld == OldFrame \/ OldMousePressed

SpecOld == InitOld /\ [][NextOld]_vars

-----------------------------------------------------------------------------
(* windowResized *)

\* what a resize could touch: the canvas and the sketch's globals
Sketch ==
  [width |-> width, height |-> height, particles |-> particles,
   fireworks |-> fireworks, config |-> config, lastLaunch |-> lastLaunch]

\* windowWidth and windowHeight after the user resized the window
WindowSizes == {[w |-> 1000, h |-> 800], [w |-> 1200, h |-> 600]}

\* variant of windowResized: the handler starts the particles list afresh, as
\* setup does
windowResizedAfresh(st, size) ==
  [st EXCEPT !.width = size.w, !.height = size.h, !.particles = << >>]

\* windowResized: resizeCanvas(windowWidth, windowHeight)
windowResized(st, size) == [st EXCEPT !.width = size.w, !.height = size.h]

\* the window takes the given size and p5 calls windowResized()
ResizeTo(size) ==
  \E st \in {windowResized(Sketch, size)} :
    /\ width' = st.width
    /\ height' = st.height
    /\ particles' = st.particles
    /\ fireworks' = st.fireworks
    /\ config' = st.config
    /\ lastLaunch' = st.lastLaunch
    /\ UNCHANGED <<now, deltaTime, launched, explodeCalls, retired, trace, threw,
                   system, looping, gui>>

WindowResized == \E size \in WindowSizes : ResizeTo(size)

NextResize == Frame \/ LaunchNow \/ WindowResized

SpecResize == Init /\ [][NextResize]_vars

-----------------------------------------------------------------------------
(* A setup in which the constructor or initGUI may raise *)

InitSetup ==
  InitAfter(Configs, {SetupOutcome(ctorRaises, guiRaises) :
                        ctorRaises \in BOOLEAN, guiRaises \in BOOLEAN})

NextSetup == Frame \/ MousePressed

SpecSetup == InitSetup /\ [][NextSetup]_vars

-----------------------------------------------------------------------------
(* Entries of the particles list that other code has damaged *)

\* number of damaged entries the model lets the list hold at a time
MaxMalformed == 1

\* an entry that is null
NullEntry ==
  [NewParticle(Vec(0, 0), Vec(0, 0), 0, "NULL", NoOptions, 0, 0)
     EXCEPT !.missing = "null"]

\* particles[i] = null, or delete particles[i].pos (vel, acc)
Damaged(p, what) == IF what = "null" THEN NullEntry ELSE [p EXCEPT !.missing = what]

\* code outside the frame loop damages particles[i]; a shell is one object, so
\* the Firework that holds it sees a property go as well
Damage(i, what) ==
  /\ Len(SelectSeq(particles, Malformed)) < MaxMalformed
  /\ ~Malformed(particles[i])
  /\ particles' = [particles EXCEPT ![i] = Damaged(particles[i], what)]
  /\ fireworks' = IF what = "null" THEN fireworks
                  ELSE SyncShell(fireworks, Damaged(particles[i], what))
  /\ UNCHANGED <<now, deltaTime, width, height, config, lastLaunch, launched,
                 explodeCalls, retired, trace, threw, system, looping, gui>>

DamageEntry ==
  \E i \in DOMAIN particles, what \in {"null", "pos", "vel", "acc"} : Damage(i, what)

NextMalformed == Frame \/ LaunchNow \/ DamageEntry

\* PEONY shells, launched by the timer or by the panel's button
ConfigsMalformed ==
  {[ThickAir EXCEPT !.fireworkType = "PEONY"],
   [ThickAir EXCEPT !.autoLaunch = FALSE, !.fireworkType = "PEONY"],
   [Defaults EXCEPT !.autoLaunch = FALSE, !.fireworkType = "PEONY"]}

InitMalformed == InitIn(ConfigsMalformed)

SpecMalformed == InitMalformed /\ [][NextMalformed]_vars

-----------------------------------------------------------------------------
(* Properties *)

\* the bursts of the last frame: primary PEONY explosions, secondary explosions
PeonyBursts ==
  {i \in DOMAIN trace.bursts :
     trace.bursts[i].kind = "primary" /\ trace.bursts[i].type = "PEONY"}

SecondaryBursts == {i \in DOMAIN trace.bursts : trace.bursts[i].kind = "secondary"}

\* the mini-shells the last frame's primary explosions pushed (four at most each)
MiniShellsPushed ==
  {ij \in (DOMAIN trace.bursts) \X (1..4) :
     /\ trace.bursts[ij[1]].kind = "primary"
     /\ ij[2] \in DOMAIN trace.bursts[ij[1]].created
     /\ trace.bursts[ij[1]].created[ij[2]].role = "MINI_SHELL"}

MiniShellsAlive == {i \in DOMAIN particles : particles[i].role = "MINI_SHELL"}

\* the claims' explosionSize / 10, in hundredths of a pixel
SizeTenth == config.explosionSize * 10

\* a speed (squared, hundredths of a pixel) within [0.8, 1.2] x explosionSize / 10
InPeonyRange(magSq) ==
  64 * SizeTenth * SizeTenth <= 100 * magSq /\ 100 * magSq <= 144 * SizeTenth * SizeTenth

\* the pointer at m is over the panel at rect
OverPanel(m, rect) ==
  /\ rect.present
  /\ m.x >= rect.left /\ m.x <= rect.right
  /\ m.y >= rect.top /\ m.y <= rect.bottom

\* C1: the length of the particles list never exceeds config.maxTotalParticles,
\* whatever was launched, exploded or spawned.
CapRespected == Len(particles) <= config.maxTotalParticles

\* C2: explode() runs at most once per Firework, and a Firework that has left
\* 'ASCENT' does not come back: the fireworks list holds no retired Firework,
\* and Firework.update of a Firework in 'EXPLOSION' neither runs explode() nor
\* changes the lifecycle.
ExplodeAtMostOnce ==
  /\ \A id \in DOMAIN explodeCalls : explodeCalls[id] <= 1
  /\ \A i \in DOMAIN fireworks :
       /\ fireworks[i].id \notin retired
       /\ LET after == [fireworks[i] EXCEPT !.lifecycle = "EXPLOSION",
                                            !.hasExploded = TRUE]
              u == FireworkUpdate(after, particles, config, now, 0)
          IN ~u.exploded /\ u.fw.lifecycle = "EXPLOSION"

\* a Firework has run explode() and has been spliced out of the list
ExplodedAndRetired == \E id \in retired : explodeCalls[id] = 1

\* C3: every Firework that leaves the fireworks list has run explode() (one
\* spliced out without it never detonates: only draw's loop over the list
\* calls update).
RetiredHaveExploded == \A id \in retired : explodeCalls[id] >= 1

\* C4: an update of a fading particle does not raise its alpha, and leaves it at
\* exactly 0 when the time since fadeStartTime has reached fadeDuration.
FadeMonotoneToZero ==
  \A i \in DOMAIN trace.fades :
    LET f == trace.fades[i]
    IN /\ f.alphaAfter <= f.alphaBefore
       /\ f.elapsed >= f.fadeDuration => f.alphaAfter = 0

\* a shell that an earlier update had faded part of the way is taken to 0
FadedPartlyThenOut ==
  \E i \in DOMAIN trace.fades :
    LET f == trace.fades[i]
    IN /\ f.elapsed >= f.fadeDuration
       /\ 0 < f.alphaBefore /\ f.alphaBefore < 20000
       /\ f.alphaAfter = 0

\* C5: a mini-shell with delay D > 0 runs explodeSecondary exactly once, in its
\* first update at age >= D and in none before, and leaves the list in that
\* frame: no mini-shell of the list is due or spent, every secondary explosion
\* of the last frame came at age >= D, and there was one per mini-shell that
\* left the list.
MiniShellExplodesOnce ==
  /\ \A i \in MiniShellsAlive :
       /\ particles[i].delay > 0
       /\ particles[i].alpha > 0
       /\ now - particles[i].timeCreated < particles[i].delay
  /\ \A i \in SecondaryBursts :
       trace.bursts[i].delay > 0 /\ trace.bursts[i].age >= trace.bursts[i].delay
  /\ Cardinality(SecondaryBursts)
       = trace.nMiniShells + Cardinality(MiniShellsPushed) - Cardinality(MiniShellsAlive)

\* a mini-shell has set off its secondary explosion, which made particles
SecondaryWentOff ==
  \E i \in SecondaryBursts :
    /\ trace.bursts[i].age >= trace.bursts[i].delay
    /\ trace.bursts[i].created # << >>

\* C6, as stated: a PEONY explosion adds exactly particleCount particles of role
\* 'EXPLOSION'.
PeonyAddsCount ==
  \A i \in PeonyBursts :
    Len(SelectSeq(trace.bursts[i].created, LAMBDA p : p.role = "EXPLOSION"))
      = config.particleCount

\* C6, amended: a PEONY explosion adds min(particleCount, 5000) particles, or
\* as many as the list had room for below maxTotalParticles when it began, all
\* of role 'EXPLOSION'.
PeonyAddsCountOrRoom ==
  \A i \in PeonyBursts :
    LET b == trace.bursts[i]
    IN /\ Len(b.created)
            = Min(Min(config.particleCount, MAX_PARTICLES_PER_FIREWORK),
                  Max(0, config.maxTotalParticles - b.lenBefore))
       /\ \A j \in DOMAIN b.created : b.created[j].role = "EXPLOSION"

\* a PEONY explosion had room for all its particles
PeonyFullBurst ==
  \E i \in PeonyBursts :
    Len(trace.bursts[i].created) = config.particleCount /\ config.particleCount > 0

\* C7, as stated: every particle of a PEONY explosion starts with a speed within
\* [0.8, 1.2] x explosionSize / 10.
PeonySpeedInRange ==
  \A i \in PeonyBursts :
    \A j \in DOMAIN trace.bursts[i].created :
      InPeonyRange(VMagSq(trace.bursts[i].created[j].vel))

\* C7, amended: every particle of a PEONY explosion starts with a velocity that
\* is a tenth of the shell's velocity plus a vector of magnitude within
\* [0.8, 1.2] x explosionSize / 10.
PeonyBurstSpeedInRange ==
  \A i \in PeonyBursts :
    LET b == trace.bursts[i]
        inheritedVel == VScale(b.shellVel, 1, 10)
    IN \A j \in DOMAIN b.created :
         InPeonyRange(VMagSq(Vec(b.created[j].vel.x - inheritedVel.x,
                                 b.created[j].vel.y - inheritedVel.y)))

\* a PEONY explosion made particles while its shell was moving
PeonyBurstMoving ==
  \E i \in PeonyBursts :
    /\ trace.bursts[i].created # << >>
    /\ VScale(trace.bursts[i].shellVel, 1, 10) # Vec(0, 0)

\* C8: in a frame, system.update builds exactly one Firework and sets lastLaunch
\* to the frame's time if autoLaunch is on, more than 1/launchFrequency seconds
\* have passed since lastLaunch and the particles list is below the cap; in
\* every other case it builds none and leaves lastLaunch alone.
AutoLaunchIff ==
  IF /\ trace.autoLaunch
     /\ (now - trace.lastLaunch) * config.launchFrequency > 10000
     /\ trace.nParticles < config.maxTotalParticles
  THEN trace.built = 1 /\ lastLaunch = now
  ELSE trace.built = 0 /\ lastLaunch = trace.lastLaunch

\* a frame has launched automatically
AutoLaunched == trace.built = 1 /\ lastLaunch = now /\ now > 0

\* what C9 asks of one step
RejectedIsNoOp ==
  /\ (now' = now /\ Len(particles) >= config.maxTotalParticles)
       => UNCHANGED <<fireworks, particles, lastLaunch>>
  /\ (now' # now /\ Len(particles) >= config.maxTotalParticles)
       => launched' = launched /\ lastLaunch' = lastLaunch
  /\ \A pos \in LaunchPositions :
       (now' = now /\ ~ValidPos(pos) /\ CallLaunch(pos))
         => UNCHANGED <<fireworks, particles, lastLaunch>>
  /\ ~threw'

\* C9: a launch request made at the cap, or with an invalid position, is a
\* no-op: a pointer press, the panel's button or a call of launch() leaves the
\* fireworks list, the particles list and lastLaunch as they were, a frame at
\* the cap builds no Firework and leaves lastLaunch, and nothing is thrown.
LaunchRejectedIsNoOp == [][RejectedIsNoOp]_vars

\* a frame's automatic launch came due at the cap and built nothing
AutoLaunchAtCap ==
  /\ trace.due
  /\ trace.nParticles >= config.maxTotalParticles
  /\ trace.built = 0

\* what C10 asks of a press at m with the panel at rect
PressOutcome(m, rect) ==
  /\ (config.autoLaunch \/ OverPanel(m, rect)) => UNCHANGED <<fireworks, particles>>
  /\ Len(fireworks') > Len(fireworks) =>
       /\ ~config.autoLaunch
       /\ ~OverPanel(m, rect)
       /\ Len(fireworks') = Len(fireworks) + 1
       /\ fireworks'[Len(fireworks')].shell.pos = Vec(m.x * 100, height * 100)
       /\ particles' = Append(particles, fireworks'[Len(fireworks')].shell)

\* C10: a pointer press builds a Firework only when autoLaunch is off and the
\* pointer is not over the panel, and otherwise adds no firework and no
\* particle; the Firework it builds starts at the pointer's x, at y = height.
PressLaunchesOnlyManual ==
  [][(now' = now /\ <<fireworks, particles>>' # <<fireworks, particles>>) =>
       \A m \in MousePoints, rect \in PanelRects :
         PressAt(m, rect) => PressOutcome(m, rect)]_vars

\* a press at x = 300 has just built a Firework at the bottom edge
PressedAndLaunched ==
  /\ ~config.autoLaunch
  /\ \E i \in DOMAIN fireworks :
       /\ fireworks[i].shell.pos = Vec(30000, height * 100)
       /\ fireworks[i].shell.timeCreated = now

\* the types Firework.explode has a case for
Recognized == {"PEONY", "CHRYSANTHEMUM", "PALM", "WILLOW", "STROBE", "CRACKLING",
               "MULTI_BREAK"}

\* the last frame's explosions of Fireworks whose type has no case
UnknownBursts ==
  {i \in DOMAIN trace.bursts :
     trace.bursts[i].kind = "primary" /\ trace.bursts[i].type \notin Recognized}

\* C11: explode() of a Firework whose type the switch does not know raises
\* nothing and takes the default branch: it adds particleCount particles (as
\* far as the cap leaves room), all of role 'EXPLOSION', at the shell's position,
\* each with a tenth of the shell's velocity plus a vector no longer than
\* 1.3 x explosionSize / 10, and the Firework is marked 'EXPLOSION' and leaves
\* the fireworks list in that frame.
UnknownTypeBursts ==
  /\ ~threw
  /\ \A i \in UnknownBursts :
       LET b == trace.bursts[i]
           inheritedVel == VScale(b.shellVel, 1, 10)
       IN /\ Len(b.created)
               = Min(Min(config.particleCount, MAX_PARTICLES_PER_FIREWORK),
                     Max(0, config.maxTotalParticles - b.lenBefore))
          /\ \A j \in DOMAIN b.created :
               /\ b.created[j].role = "EXPLOSION"
               /\ b.created[j].pos = b.pos
               /\ 100 * VMagSq(Vec(b.created[j].vel.x - inheritedVel.x,
                                   b.created[j].vel.y - inheritedVel.y))
                    <= 169 * SizeTenth * SizeTenth
          /\ b.fw \in retired
          /\ \A k \in DOMAIN fireworks : fireworks[k].id # b.fw

\* a Firework of an unknown type has exploded into particles
UnknownTypeBurst ==
  \E i \in UnknownBursts : trace.bursts[i].created # << >>

\* what C12 asks of one step: a frame leaves no damaged entry in the list, has
\* updated every entry but the damaged ones, and raises nothing
MalformedStep ==
  now' # now =>
    /\ \A i \in DOMAIN particles' : ~Malformed(particles'[i])
    /\ trace'.updated
         = Len(particles) + trace'.built - Len(SelectSeq(particles, Malformed))
    /\ ~threw'

\* C12: a frame removes every entry of the particles list that is null or
\* lacks pos, vel or acc, without updating it; nothing is raised, and every
\* other entry is updated in that frame.  update() of a Particle that lacks pos,
\* vel or acc sets its alpha to 0 and does nothing else.
MalformedRemoved ==
  [][/\ MalformedStep
     /\ \A i \in DOMAIN particles :
          (Malformed(particles[i]) /\ particles[i].missing # "null") =>
            ParticleUpdate(particles, i, config, now, deltaTime, 0).ps
              = [particles EXCEPT ![i] = [particles[i] EXCEPT !.alpha = 0]]]_vars

\* a frame began with a damaged entry beside another particle, and updated
\* the other one
MalformedSkipped ==
  /\ trace.nMalformed > 0
  /\ trace.updated > 0
  /\ \A i \in DOMAIN particles : ~Malformed(particles[i])

\* C13: once the constructor of FireworkSystem or initGUI has raised during
\* setup, no frame changes the particles list, the fireworks list or
\* lastLaunch, and system and the panel stay as setup left them.
SetupFailureHalts ==
  [][(~system \/ ~gui) =>
       /\ now' # now => UNCHANGED <<particles, fireworks, lastLaunch, launched>>
       /\ UNCHANGED <<system, gui, looping>>]_vars

\* what C14 asks of one step: every particle that was fading when its update
\* began is fading after it; a fading shell that stays in the list stays
\* fading, in the list and in its Firework; a step that is no frame leaves
\* the fading particles where and as they are
FadingStays ==
  /\ now' # now => \A i \in DOMAIN trace'.fades : trace'.fades[i].fadingAfter
  /\ \A i \in DOMAIN particles :
       (particles[i].isFading /\ particles[i].id # 0) =>
         /\ \A j \in DOMAIN particles' :
              particles'[j].id = particles[i].id => particles'[j].isFading
         /\ \A k \in DOMAIN fireworks' :
              fireworks'[k].id = particles[i].id => fireworks'[k].shell.isFading
  /\ now' = now =>
       \A i \in DOMAIN particles :
         particles[i].isFading =>
           i \in DOMAIN particles' /\ particles'[i] = particles[i]

\* C14: once a particle's isFading is true it stays true: update, setFading,
\* an explosion, a secondary explosion and a crackle spawn leave it set, and
\* setFading on a fading particle changes nothing.
FadingNeverReverts ==
  [][/\ FadingStays
     /\ \A i \in DOMAIN particles :
          particles[i].isFading =>
            \A d \in {-1, 1000} : setFading(particles[i], d, now) = particles[i]]_vars

\* a particle that was fading has been updated and is still in the list, fading
StillFading ==
  /\ \E i \in DOMAIN trace.fades :
       trace.fades[i].fadingAfter /\ trace.fades[i].alphaAfter > 0
  /\ \E i \in DOMAIN particles : particles[i].isFading

\* C15: every particle's alpha is within 0..255: in the particles list, in the
\* shell a Firework holds, as explosions create particles and as updates leave
\* the particles that were fading.
AlphaInRange ==
  /\ \A i \in DOMAIN particles :
       0 <= particles[i].alpha /\ particles[i].alpha <= 25500
  /\ \A k \in DOMAIN fireworks :
       0 <= fireworks[k].shell.alpha /\ fireworks[k].shell.alpha <= 25500
  /\ \A i \in DOMAIN trace.fades :
       0 <= trace.fades[i].alphaAfter /\ trace.fades[i].alphaAfter <= 25500
  /\ \A i \in DOMAIN trace.bursts :
       \A j \in DOMAIN trace.bursts[i].created :
         /\ 0 <= trace.bursts[i].created[j].alpha
         /\ trace.bursts[i].created[j].alpha <= 25500

\* a particle of the list is part of the way through its fade
AlphaPartWay ==
  \E i \in DOMAIN particles :
    /\ particles[i].isFading
    /\ 0 < particles[i].alpha
    /\ particles[i].alpha < particles[i].fadeStartAlpha

FluidBehaviourApplied ==
  config.particleType = "FLUID" =>
    \A i \in DOMAIN particles :
      particles[i].role # "SHELL" /\ ~Malformed(particles[i]) =>
        \A k \in 0..(Len(Dirs) - 1) :
          FluidStep(particles[i], k) = applyFluidBehavior(particles[i], k)

\* C17: in every frame, a Firework of the list runs explode() in its update
\* if and only if its shell's vertical velocity is >= -0.5 or its y is <= 
\* explosionAltitude at that update, and then it leaves the fireworks list in
\* that frame; as it is updated every frame while it is listed and explodes
\* once at most, that frame is the first in which the condition held.
ExplodesAtApex ==
  /\ \A i \in DOMAIN trace.fwUpdates :
       LET e == trace.fwUpdates[i]
       IN /\ e.exploded <=> (e.vy >= -50 \/ e.y <= e.explosionAltitude)
          /\ e.exploded =>
               /\ e.done
               /\ e.id \in retired
               /\ \A k \in DOMAIN fireworks : fireworks[k].id # e.id
  /\ Len(trace.fwUpdates) = trace.nFireworks + trace.built
  /\ \A id \in DOMAIN explodeCalls : explodeCalls[id] <= 1

\* a Firework has exploded in the frame in which its shell slowed to the apex
ExplodedAtApex ==
  \E i \in DOMAIN trace.fwUpdates :
    /\ trace.fwUpdates[i].exploded
    /\ trace.fwUpdates[i].vy >= -50
    /\ trace.fwUpdates[i].y > trace.fwUpdates[i].explosionAltitude

\* C19: one Particle.update with time step dt leaves velocity + acceleration*dt
\* as the velocity, position + that velocity*dt as the position, and a zero
\* acceleration.
EulerStep ==
  \A i \in DOMAIN trace.moves :
    LET m == trace.moves[i]
        v == VAdd(m.vel, VScale(m.acc, StepNum(deltaTime), StepDen(deltaTime)))
    IN /\ m.velAfter = v
       /\ m.posAfter = VAdd(m.pos, VScale(v, StepNum(deltaTime), StepDen(deltaTime)))
       /\ m.accAfter = Vec(0, 0)

\* C20: a MULTI_BREAK explosion adds 2 to 4 particles, all of them
\* MINI_SHELLs with a delay > 0, a palette and a subtype of FIREWORK_TYPES
\* that is neither 'RANDOM' nor 'MULTI_BREAK'; a secondary explosion adds no
\* MINI_SHELL.
MultiBreakAddsMiniShells ==
  \A i \in DOMAIN trace.bursts :
    LET b == trace.bursts[i]
    IN /\ b.kind = "primary" /\ b.type = "MULTI_BREAK" =>
            /\ Len(b.created) \in 2..4
            /\ \A k \in DOMAIN b.created :
                 /\ b.created[k].role = "MINI_SHELL"
                 /\ b.created[k].delay > 0
                 /\ b.created[k].palette # 0
                 /\ \E n \in DOMAIN FIREWORK_TYPES :
                      FIREWORK_TYPES[n] = b.created[k].subType
                 /\ b.created[k].subType \notin {"RANDOM", "MULTI_BREAK"}
       /\ b.kind = "secondary" =>
            \A k \in DOMAIN b.created : b.created[k].role # "MINI_SHELL"

\* a MULTI_BREAK shell has just broken into four mini-shells
MultiBreakInFour ==
  \E i \in DOMAIN trace.bursts :
    /\ trace.bursts[i].kind = "primary"
    /\ trace.bursts[i].type = "MULTI_BREAK"
    /\ Len(trace.bursts[i].created) = 4

\* what tells one pattern's particles from another's: the role and the options
\* the constructor was given (fade rate, strobe rate, crackle rate)
Pattern(p) ==
  [role |-> p.role, fadeRate |-> p.fadeRate, strobes |-> p.strobeRate # 0,
   crackles |-> p.crackleRate # 0]

\* the patterns of the particles a primary explosion of type ty asks for
PrimaryPatterns(ty) ==
  LET qs == ExplodeRequests([type |-> ty,
                             shell |-> [pos |-> Vec(0, 0), vel |-> Vec(0, 0)]],
                            config, 0)
  IN {Pattern(NewParticle(qs[k].pos, qs[k].vel, qs[k].alpha, qs[k].role,
                          qs[k].options, 0, 1500)) : k \in DOMAIN qs}

SecondaryMade ==
  {ik \in (DOMAIN trace.bursts) \X (1..MAX_PARTICLES_PER_FIREWORK) :
     /\ trace.bursts[ik[1]].kind = "secondary"
     /\ ik[2] \in DOMAIN trace.bursts[ik[1]].created}

\* C21, as stated: the particles of a mini-shell's secondary explosion have
\* the roles and pattern options of a primary explosion of the subtype.
SecondaryLikePrimary ==
  \A ik \in SecondaryMade :
    Pattern(trace.bursts[ik[1]].created[ik[2]])
      \in PrimaryPatterns(trace.bursts[ik[1]].type)

\* C21, amended: a secondary explosion of subtype STROBE or CRACKLING makes
\* particles with the role and options of a primary of that type; of every
\* other subtype it makes Peony particles (role EXPLOSION, default fade
\* rate); it makes floor(0.4 * particleCount) particles at most, each thrown
\* off the mini-shell at 1.2 * explosionSize / 18 at most.
SecondaryPattern ==
  \A ik \in SecondaryMade :
    LET b == trace.bursts[ik[1]]
        p == b.created[ik[2]]
        off == VAdd(p.vel, VScale(VScale(b.shellVel, 3, 10), -1, 1))
    IN /\ Pattern(p) \in PrimaryPatterns(IF b.type \in {"STROBE", "CRACKLING"}
                                         THEN b.type ELSE "PEONY")
       /\ Len(b.created) <= (config.particleCount * 4) \div 10
       /\ 18 * 18 * VMagSq(off)
            <= (120 * config.explosionSize) * (120 * config.explosionSize)

\* a WILLOW mini-shell has gone off and made particles
WillowSecondary ==
  \E ik \in SecondaryMade : trace.bursts[ik[1]].type = "WILLOW"

\* C22: after each frame no particle of the list has alpha <= 0 and no
\* Firework of the list has lifecycle 'EXPLOSION' (and no other handler puts
\* one in).
NoneDoneListed ==
  /\ \A i \in DOMAIN particles : particles[i].alpha > 0
  /\ \A i \in DOMAIN fireworks : fireworks[i].lifecycle # "EXPLOSION"

\* this frame faded a particle to alpha 0 and spliced it, after a Firework
\* had exploded and left its list
FadedOutAndSpliced ==
  /\ \E i \in DOMAIN trace.fades : trace.fades[i].alphaAfter = 0
  /\ Len(particles) < trace.nParticles
  /\ retired # {}

\* C23: only the update of a CRACKLE_SOURCE that is not fading appends
\* particles, only with particles.length < maxTotalParticles - 5 before it,
\* and it appends 1 to 3 particles, all of role 'CRACKLE'; so no CRACKLE
\* particle spawns.
CrackleSpawns ==
  \A i \in DOMAIN trace.spawns :
    LET e == trace.spawns[i]
    IN /\ e.role = "CRACKLE_SOURCE"
       /\ ~e.fading
       /\ e.lenBefore < config.maxTotalParticles - 5
       /\ Len(e.created) \in 1..3
       /\ \A k \in DOMAIN e.created : e.created[k].role = "CRACKLE"

\* a crackle source has just spawned crackles while a crackle was in the list
CrackledAgain ==
  /\ trace.spawns # << >>
  /\ \E i \in DOMAIN particles :
       particles[i].role = "CRACKLE" /\ particles[i].isFading

\* s is what is left of t after its first entries were dropped
IsSuffix(s, t) ==
  /\ Len(s) <= Len(t)
  /\ \A k \in DOMAIN s : s[k] = t[Len(t) - Len(s) + k]

\* C24: after a Particle.update the trail holds maxTrailLength (15) positions
\* at most; it is the trail of before, with the new position at its end if
\* one was pushed, less the oldest entries if any were evicted.
TrailBounded ==
  \A i \in DOMAIN trace.moves :
    LET m == trace.moves[i]
    IN /\ Len(m.trailAfter) <= TRAIL_LENGTH
       /\ \/ IsSuffix(m.trailAfter, Append(m.trail, m.posAfter))
             /\ Len(m.trailAfter) >= Min(Len(m.trail) + 1, TRAIL_LENGTH)
          \/ m.trail # << >> /\ m.trailAfter = Tail(m.trail)
          \/ m.trail = << >> /\ m.trailAfter = << >>

\* an update has pushed a position onto a full trail and evicted the oldest
TrailEvicted ==
  \E i \in DOMAIN trace.moves :
    /\ Len(trace.moves[i].trail) = TRAIL_LENGTH
    /\ Len(trace.moves[i].trailAfter) = TRAIL_LENGTH
    /\ trace.moves[i].trailAfter[TRAIL_LENGTH] = trace.moves[i].posAfter
    /\ trace.moves[i].trailAfter[1] = trace.moves[i].trail[2]

\* C25: with autoLaunch off and no launch after some frame, the frames that
\* follow empty both lists for good: every shell, explosion, strobe, crackle
\* source, crackle and mini-shell particle is removed, and every Firework.
ListsDrain == <>[](particles = << >> /\ fireworks = << >>)

\* a Firework was launched and has exploded, and both lists are empty again
DrainedAfterShow ==
  /\ launched > 0
  /\ retired # {}
  /\ \E id \in DOMAIN explodeCalls : explodeCalls[id] = 1
  /\ particles = << >>
  /\ fireworks = << >>

\* C26: the particle sweep of a frame updates the entries the list had when
\* the sweep began, from the last to the first, each once and each as it was
\* when the sweep began; it updates nothing else, so no particle appended
\* during the sweep, and no splice makes it pass over or revisit an entry.
SweepOncePerParticle ==
  /\ Len(trace.visits) = Len(trace.atSweep)
  /\ \A k \in DOMAIN trace.visits :
       /\ trace.visits[k].index = Len(trace.atSweep) - k + 1
       /\ trace.visits[k].entry = trace.atSweep[trace.visits[k].index]
  /\ trace.updated = Len(trace.atSweep)

\* a sweep over three entries or more has set off a secondary explosion that
\* appended particles, spliced the mini-shell and gone on to the entries
\* before it
SweptPastSplice ==
  /\ Len(trace.visits) >= 3
  /\ \E i \in DOMAIN trace.bursts :
       /\ trace.bursts[i].kind = "secondary"
       /\ trace.bursts[i].created # << >>
       /\ \E k \in DOMAIN trace.visits :
            /\ trace.visits[k].entry.role = "MINI_SHELL"
            /\ trace.visits[k].index > 1
            /\ trace.visits[k].entry.pos = trace.bursts[i].pos

\* C27: a Firework in ASCENT whose shell has left the particles list, and for
\* which the apex condition does not hold at its update, is put in lifecycle
\* 'EXPLOSION' without a call of explode(): it leaves the fireworks list in
\* that frame, has never exploded, and made no particles.
VanishedShellRetires ==
  \A i \in DOMAIN trace.fwUpdates :
    LET e == trace.fwUpdates[i]
    IN ~e.shellListed /\ ~(e.vy >= -50 \/ e.y <= e.explosionAltitude) =>
         /\ ~e.exploded
         /\ e.done
         /\ e.id \in retired
         /\ \A k \in DOMAIN fireworks : fireworks[k].id # e.id
         /\ explodeCalls[e.id] = 0
         /\ \A b \in DOMAIN trace.bursts :
              trace.bursts[b].kind = "primary" => trace.bursts[b].fw # e.id

\* a shell has faded out on its climb and its Firework was retired unexploded
ShellVanishedOnClimb ==
  \E i \in DOMAIN trace.fwUpdates :
    /\ ~trace.fwUpdates[i].shellListed
    /\ trace.fwUpdates[i].vy < -50
    /\ trace.fwUpdates[i].y > trace.fwUpdates[i].explosionAltitude
    /\ trace.fwUpdates[i].done
    /\ trace.fwUpdates[i].id \in retired

\* the fade schedule of a particle
Schedule(p) == <<p.isFading, p.fadeStartTime, p.fadeStartAlpha, p.fadeDuration>>

AutoLaunchTimerReset ==
  [][/\ ~config.autoLaunch /\ config'.autoLaunch => lastLaunch' = now
     /\ config.autoLaunch /\ ~config'.autoLaunch => lastLaunch' = lastLaunch
     /\ now' # now /\ launched' > launched =>
          /\ config.autoLaunch
          /\ (now' - trace.enabledAt) * config.launchFrequency > 10000
          /\ lastLaunch >= trace.enabledAt]_vars

\* Auto Launch was unticked and ticked again after the start, and a frame has
\* since launched on its own
LaunchedAfterEnabling ==
  /\ trace.enabledAt > 0
  /\ trace.built = 1
  /\ (now - trace.enabledAt) * config.launchFrequency > 10000
  /\ (now - trace.enabledAt) * config.launchFrequency <= 20000

\* C30: in the earlier version, cleanup drops a Firework only when it is in
\* lifecycle 'EXPLOSION' and each of its particles has alpha <= 0, so none in
\* ASCENT and none with a particle of alpha > 0; explode() runs in an update
\* exactly when the Firework is in ASCENT and its shell's vel.y is >= 0 after
\* the shell's update, which makes it the first such update, and it runs once.
OldFireworkLifecycle ==
  /\ \A i \in DOMAIN trace.removed :
       /\ trace.removed[i].lifecycle = "EXPLOSION"
       /\ \A k \in DOMAIN trace.removed[i].particles :
            trace.removed[i].particles[k].alpha <= 0
       /\ trace.removed[i].calls = 1
       /\ trace.removed[i].id \in retired
  /\ retired \subseteq {id \in DOMAIN explodeCalls : explodeCalls[id] = 1}
  /\ \A i \in DOMAIN trace.updates :
       trace.updates[i].exploded
         <=> (trace.updates[i].ascending /\ trace.updates[i].vy >= 0)
  /\ \A j \in DOMAIN fireworks :
       /\ fireworks[j].id \notin retired
       /\ fireworks[j].lifecycle = "ASCENT" =>
            fireworks[j].calls = 0 /\ fireworks[j].shell.vel.y < 0
       /\ fireworks[j].lifecycle = "EXPLOSION" => fireworks[j].calls = 1
  /\ Len(fireworks) + Cardinality(retired) = launched

\* cleanup has just dropped a Firework that had exploded and whose particles
\* had all faded, while another was still listed
OldFireworkCleaned ==
  /\ trace.removed # << >>
  /\ \A i \in DOMAIN trace.removed : trace.removed[i].particles # << >>
  /\ fireworks # << >>

====
